---- MODULE Spec2Model ----
(***************************************************************************)
(* Model of the apt transport method for Artifact Registry (package apt):  *)
(* the message codec (Message.String, MessageReader.ReadMessage) and the   *)
(* acquisition orchestrator (Method.Run and its handlers).                 *)
(*                                                                         *)
(* Go strings are modelled as sequences of one-character strings, so that  *)
(* trimming, splitting, sorting and escaping are computed byte by byte.    *)
(* The empty Go string "" is the empty sequence <<>>.                      *)
(***************************************************************************)
EXTENDS Integers, Sequences, FiniteSets, TLC

VARIABLES
    pc,         \* control point of Run (or of the codec harness)
    ret,        \* value returned by Run: "running", "nil" or an error
    cancelled,  \* ctx.Done() is closed
    input,      \* lines not yet consumed from the reader's bufio.Reader
    message,    \* MessageReader.message: the message under construction
    msg,        \* the message returned by the last ReadMessage call
    rerr,       \* the error returned by the last ReadMessage call
    config,     \* Method.config
    client,     \* Method.client
    resp,       \* the HTTP response of the acquisition being handled
    out,        \* the output sink: one entry per Write call, in call order
    sent,       \* history: the Message given to each WriteMessage call and
                \* the number of the inbound message being handled then
    nread,      \* history: number of messages ReadMessage has returned
    requests,   \* history: the HTTP requests given to client.Do
    downloads,  \* history: the filenames given to dl.download
    credTries,  \* history: the credential sources initClient resolved
    nlines,     \* history: number of lines that have arrived on the input
    tmsg        \* codec harness: the Message handed to WriteMessage

vars == <<pc, ret, cancelled, input, message, msg, rerr, config, client,
          resp, out, sent, nread, requests, downloads, credTries, nlines,
          tmsg>>

(***************************************************************************)
(* Bounds of the model.                                                    *)
(***************************************************************************)
\* Total number of lines in an input stream given to Run.
MaxInputLines == 8
\* Number of (name, value) insertions that build a codec test message.
MaxInserts == 3

(***************************************************************************)
(* Strings.                                                                *)
(***************************************************************************)
Range(s) == {s[i] : i \in DOMAIN s}

Min(S) == CHOOSE x \in S : \A y \in S : x <= y

Max(S) == CHOOSE x \in S : \A y \in S : y <= x

\* The printable ASCII characters in byte order, from 32 (space) to 95 and
\* from 97 to 126 (96, the backquote, cannot be written in a string here).
ASCII ==
    <<" ","!","\"","#","$","%","&","'","(",")","*","+",",","-",".","/","0",
      "1","2","3","4","5","6","7","8","9",":",";","<","=",">","?","@","A",
      "B","C","D","E","F","G","H","I","J","K","L","M","N","O","P","Q","R",
      "S","T","U","V","W","X","Y","Z","[","\\","]","^","_","a","b","c",
      "d","e","f","g","h","i","j","k","l","m","n","o","p","q","r","s","t",
      "u","v","w","x","y","z","{","|","}","~">>

\* The byte value of a character.
Ord(c) ==
    CASE c = "\t" -> 9
      [] c = "\n" -> 10
      [] c = "\r" -> 13
      [] OTHER -> LET i == CHOOSE j \in DOMAIN ASCII : ASCII[j] = c
                  IN  IF i <= 64 THEN 31 + i ELSE 32 + i

\* Go's string comparison a < b: lexicographic on bytes.
RECURSIVE StrLess(_, _)
StrLess(a, b) ==
    IF b = <<>> THEN FALSE
    ELSE IF a = <<>> THEN TRUE
    ELSE IF a[1] = b[1] THEN StrLess(Tail(a), Tail(b))
    ELSE Ord(a[1]) < Ord(b[1])

\* The white space strings.TrimSpace removes (of the characters modelled).
WhiteSpace == {" ", "\t", "\n", "\r"}

\* strings.TrimSpace
TrimSpace(s) ==
    LET keep == {i \in DOMAIN s : s[i] \notin WhiteSpace}
    IN  IF keep = {} THEN <<>> ELSE SubSeq(s, Min(keep), Max(keep))

\* strings.SplitN(s, sep, 2) for a one-byte separator.
SplitN2(s, sep) ==
    LET at == {i \in DOMAIN s : s[i] = sep}
    IN  IF at = {} THEN <<s>>
        ELSE <<SubSeq(s, 1, Min(at) - 1), SubSeq(s, Min(at) + 1, Len(s))>>

\* The positions at which sub occurs in s.
Occurrences(s, sub) ==
    {i \in 1..(Len(s) - Len(sub) + 1) : SubSeq(s, i, i + Len(sub) - 1) = sub}

\* strings.Contains
Contains(s, sub) == Occurrences(s, sub) # {}

\* strings.Replace(s, old, new, 1), old not empty.
ReplaceFirst(s, old, new) ==
    LET at == Occurrences(s, old)
    IN  IF at = {} THEN s
        ELSE SubSeq(s, 1, Min(at) - 1) \o new
             \o SubSeq(s, Min(at) + Len(old), Len(s))

Digits == <<"0","1","2","3","4","5","6","7","8","9">>

DigitValue(c) == (CHOOSE i \in DOMAIN Digits : Digits[i] = c) - 1

RECURSIVE NatToStr(_)
NatToStr(n) ==
    IF n < 10 THEN <<Digits[n + 1]>>
    ELSE NatToStr(n \div 10) \o <<Digits[(n % 10) + 1]>>

\* fmt.Sprintf("%d", n)
Itoa(n) == IF n < 0 THEN <<"-">> \o NatToStr(0 - n) ELSE NatToStr(n)

RECURSIVE StrToNat(_)
StrToNat(s) ==
    IF s = <<>> THEN 0
    ELSE 10 * StrToNat(SubSeq(s, 1, Len(s) - 1)) + DigitValue(s[Len(s)])

\* strconv.Atoi: an optional sign and at least one decimal digit (values
\* beyond the range of int are out of the model's reach).
Atoi(s) ==
    LET signed == s # <<>> /\ s[1] \in {"+", "-"}
        digits == IF signed THEN Tail(s) ELSE s
        ok     == digits # <<>> /\ Range(digits) \subseteq Range(Digits)
    IN  [ok  |-> ok,
         val |-> IF ~ok THEN 0
                 ELSE IF signed /\ s[1] = "-" THEN 0 - StrToNat(digits)
                 ELSE StrToNat(digits)]

\* strings.ToLower on ASCII letters.
ToLowerChar(c) ==
    IF c \in Range(SubSeq(ASCII, 34, 59)) THEN ASCII[(Ord(c) - 31) + 31] ELSE c

ToLower(s) == [i \in DOMAIN s |-> ToLowerChar(s[i])]

\* The complete lines of a byte stream, without their "\n": what successive
\* bufio.Reader.ReadString('\n') calls deliver before the stream runs dry.
RECURSIVE Lines(_)
Lines(bytes) ==
    LET at == {i \in DOMAIN bytes : bytes[i] = "\n"}
    IN  IF at = {} THEN <<>>
        ELSE <<SubSeq(bytes, 1, Min(at) - 1)>>
             \o Lines(SubSeq(bytes, Min(at) + 1, Len(bytes)))

(***************************************************************************)
(* Message: code, description and the multi-valued fields.                 *)
(***************************************************************************)
\* A nil or empty map[string][]string.
NoFields == [k \in {} |-> <<>>]

\* The zero value Message{}.
ZeroMessage == [code |-> 0, description |-> <<>>, fields |-> NoFields]

\* A nil *Message.
NilMessage == [nil |-> TRUE]

\* fields[key] = vals
SetField(fields, key, vals) ==
    [k \in DOMAIN fields \cup {key} |-> IF k = key THEN vals ELSE fields[k]]

\* A Get that returns the last value stored under the key. Claim C39 must
\* not hold of it.
Get_Last(m, key) ==
    IF key \in DOMAIN m.fields /\ Len(m.fields[key]) > 0
    THEN m.fields[key][Len(m.fields[key])]
    ELSE <<>>

\* Message.Get
Get(m, key) ==
    IF key \in DOMAIN m.fields /\ Len(m.fields[key]) > 0
    THEN m.fields[key][1]
    ELSE <<>>

\* The orders in which "for key := range fields" can deliver the keys: Go
\* leaves the iteration order of a map unspecified.
MapKeyOrders(fields) ==
    LET n == Cardinality(DOMAIN fields)
    IN  {o \in [1..n -> DOMAIN fields] :
            \A i, j \in 1..n : o[i] = o[j] => i = j}

\* One of these orders, for the callers whose result does not depend on it.
RECURSIVE SomeOrder(_)
SomeOrder(keys) ==
    IF keys = {} THEN <<>>
    ELSE LET k == CHOOSE x \in keys : TRUE
         IN  <<k>> \o SomeOrder(keys \ {k})

\* Insertion of key into a sequence sorted by StrLess.
RECURSIVE InsertSorted(_, _)
InsertSorted(sorted, key) ==
    IF sorted = <<>> THEN <<key>>
    ELSE IF StrLess(key, sorted[1]) THEN <<key>> \o sorted
    ELSE <<sorted[1]>> \o InsertSorted(Tail(sorted), key)

\* A Message.String without the sort.Strings call: the keys stay in the
\* order of the range loop. Claim C10 must not hold of it.
SortStrings_Unsorted(keys) == keys

\* sort.Strings(keys): ascending by byte-wise comparison.
RECURSIVE SortStrings(_)
SortStrings(keys) ==
    IF keys = <<>> THEN <<>>
    ELSE InsertSorted(SortStrings(Tail(keys)), keys[1])

\* A Message.String that emits the values as they are, without the
\* newlineRegexp replacement. Claim C11 must not hold of it.
ReplaceNewlines_Raw(val) == val

\* newlineRegexp.ReplaceAllString(val, "\\n") with newlineRegexp = \r?\n
RECURSIVE ReplaceNewlines(_)
ReplaceNewlines(val) ==
    IF val = <<>> THEN <<>>
    ELSE IF val[1] = "\n"
         THEN <<"\\", "n">> \o ReplaceNewlines(Tail(val))
    ELSE IF Len(val) >= 2 /\ val[1] = "\r" /\ val[2] = "\n"
         THEN <<"\\", "n">> \o ReplaceNewlines(SubSeq(val, 3, Len(val)))
    ELSE <<val[1]>> \o ReplaceNewlines(Tail(val))

\* The field lines of one key, one per value, in the order of the slice.
RECURSIVE ValueLines(_, _)
ValueLines(key, vals) ==
    IF vals = <<>> THEN <<>>
    ELSE <<key \o <<":", " ">> \o ReplaceNewlines(vals[1])>>
         \o ValueLines(key, Tail(vals))

RECURSIVE FieldLines(_, _)
FieldLines(sortedKeys, fields) ==
    IF sortedKeys = <<>> THEN <<>>
    ELSE ValueLines(sortedKeys[1], fields[sortedKeys[1]])
         \o FieldLines(Tail(sortedKeys), fields)

\* strings.Join(lines, "\n")
RECURSIVE Join(_)
Join(lines) ==
    IF lines = <<>> THEN <<>>
    ELSE IF Len(lines) = 1 THEN lines[1]
    ELSE lines[1] \o <<"\n">> \o Join(Tail(lines))

\* Message.String, with rangeOrder the order in which the range loop over
\* m.fields delivers the keys.
StringRanged(m, rangeOrder) ==
    LET sortedKeys == SortStrings(rangeOrder)
        header     == Itoa(m.code) \o <<" ">> \o m.description
    IN  Join(<<header>> \o FieldLines(sortedKeys, m.fields) \o << <<>>, <<>> >>)

\* Message.String under one iteration order.
String(m) == StringRanged(m, SomeOrder(DOMAIN m.fields))

(***************************************************************************)
(* MessageReader.                                                          *)
(***************************************************************************)
\* The errors of the reader and the value Run returns are strings of TLA+;
\* NoError is the nil error. (The errors of the handlers, whose text goes
\* into messages, are Go strings, with <<>> for nil.)
NoError == "nil"

\* The error of the reader for a blank line with no message pending, which
\* Run tests for with errors.Is(err, errEmptyMessage).
errEmptyMessage == "Empty message"

\* A parseHeader without the test for a header parsed before. Claim C13
\* must not hold of it.
parseHeader_NoDoubleCheck(m, line) ==
    LET trimmed == TrimSpace(line)
        parts   == SplitN2(trimmed, " ")
        code    == Atoi(TrimSpace(parts[1]))
    IN  IF line = <<>>
        THEN [err |-> "Empty message header", message |-> m]
        ELSE IF Len(parts) # 2
        THEN [err |-> "Malformed header, not enough parts", message |-> m]
        ELSE IF ~code.ok
        THEN [err |-> "Malformed header, code is not an integer",
              message |-> m]
        ELSE [err |-> NoError,
              message |-> [m EXCEPT !.code = code.val,
                                    !.description = TrimSpace(parts[2])]]

\* MessageReader.parseHeader on r.message = m: the error returned and
\* r.message afterwards.
parseHeader(m, line) ==
    LET trimmed == TrimSpace(line)
        parts   == SplitN2(trimmed, " ")
        code    == Atoi(TrimSpace(parts[1]))
    IN  IF line = <<>>
        THEN [err |-> "Empty message header", message |-> m]
        ELSE IF m.code # 0 \/ m.description # <<>>
        THEN [err |-> "Double parsing header", message |-> m]
        ELSE IF Len(parts) # 2
        THEN [err |-> "Malformed header, not enough parts", message |-> m]
        ELSE IF ~code.ok
        THEN [err |-> "Malformed header, code is not an integer",
              message |-> m]
        ELSE [err |-> NoError,
              message |-> [m EXCEPT !.code = code.val,
                                    !.description = TrimSpace(parts[2])]]

\* A parseField that assigns r.message.fields[key] = []string{value} and
\* so keeps only the last value of a repeated name. Claim C9 must not hold
\* of it.
parseField_Overwrite(m, line) ==
    LET trimmed == TrimSpace(line)
        parts   == SplitN2(trimmed, ":")
        key     == TrimSpace(parts[1])
        value   == TrimSpace(parts[2])
    IN  IF line = <<>> \/ Len(parts) < 2 \/ key = <<>> \/ value = <<>>
        THEN [err |-> "Malformed field", message |-> m]
        ELSE [err |-> NoError,
              message |-> [m EXCEPT !.fields =
                               SetField(m.fields, key, <<value>>)]]

\* A parseField that drops a value its name already holds. Claim C12 must
\* not hold of it.
parseField_Dedup(m, line) ==
    LET trimmed == TrimSpace(line)
        parts   == SplitN2(trimmed, ":")
        key     == TrimSpace(parts[1])
        value   == TrimSpace(parts[2])
        old     == IF key \in DOMAIN m.fields THEN m.fields[key] ELSE <<>>
    IN  IF line = <<>> \/ Len(parts) < 2 \/ key = <<>> \/ value = <<>>
        THEN [err |-> "Malformed field", message |-> m]
        ELSE [err |-> NoError,
              message |-> [m EXCEPT !.fields =
                               SetField(m.fields, key,
                                        IF value \in Range(old) THEN old
                                        ELSE Append(old, value))]]

\* A parseField without the test for an empty key or value. Claim C14 must
\* not hold of it.
parseField_NoEmptyCheck(m, line) ==
    LET trimmed == TrimSpace(line)
        parts   == SplitN2(trimmed, ":")
        key     == TrimSpace(parts[1])
        value   == TrimSpace(parts[2])
        old     == IF key \in DOMAIN m.fields THEN m.fields[key] ELSE <<>>
    IN  IF line = <<>>
        THEN [err |-> "Empty message field", message |-> m]
        ELSE IF Len(parts) < 2
        THEN [err |-> "Malformed field, not enough parts", message |-> m]
        ELSE [err |-> NoError,
              message |-> [m EXCEPT !.fields =
                               SetField(m.fields, key, Append(old, value))]]

\* MessageReader.parseField on r.message = m.
parseField(m, line) ==
    LET trimmed == TrimSpace(line)
        parts   == SplitN2(trimmed, ":")
        key     == TrimSpace(parts[1])
        value   == TrimSpace(parts[2])
        old     == IF key \in DOMAIN m.fields THEN m.fields[key] ELSE <<>>
    IN  IF line = <<>>
        THEN [err |-> "Empty message field", message |-> m]
        ELSE IF Len(parts) < 2
        THEN [err |-> "Malformed field, not enough parts", message |-> m]
        ELSE IF key = <<>> \/ value = <<>>
        THEN [err |-> "Malformed field, empty key or value", message |-> m]
        ELSE [err |-> NoError,
              message |-> [m EXCEPT !.fields =
                               SetField(m.fields, key, Append(old, value))]]

\* A ReadMessage that returns the message at a blank line and keeps it as
\* the message in progress. Claim C25 must not hold of it.
readLine_NoReset(m, rawline) ==
    LET line == TrimSpace(rawline)
    IN  IF line = <<>>
        THEN IF m = NilMessage
             THEN [message |-> m, returns |-> TRUE,
                   msg |-> NilMessage, err |-> errEmptyMessage]
             ELSE [message |-> m, returns |-> TRUE,
                   msg |-> m, err |-> NoError]
        ELSE LET p == IF m = NilMessage
                      THEN parseHeader(ZeroMessage, line)
                      ELSE parseField(m, line)
             IN  [message |-> p.message, returns |-> p.err # NoError,
                  msg |-> NilMessage, err |-> p.err]

\* One iteration of ReadMessage's loop after ReadString delivered a line
\* (with or without its "\n", which TrimSpace removes): r.message
\* afterwards, whether the call returns, and what it returns.
readLine(m, rawline) ==
    LET line == TrimSpace(rawline)
    IN  IF line = <<>>
        THEN IF m = NilMessage
             THEN [message |-> m, returns |-> TRUE,
                   msg |-> NilMessage, err |-> errEmptyMessage]
             ELSE [message |-> NilMessage, returns |-> TRUE,
                   msg |-> m, err |-> NoError]
        ELSE LET p == IF m = NilMessage
                      THEN parseHeader(ZeroMessage, line)
                      ELSE parseField(m, line)
             IN  [message |-> p.message, returns |-> p.err # NoError,
                  msg |-> NilMessage, err |-> p.err]

(***************************************************************************)
(* The outbound messages.                                                  *)
(***************************************************************************)
\* A map literal: the listed keys with one value each.
Fields1(pairs) ==
    [k \in {p[1] : p \in pairs} |->
        <<(CHOOSE p \in pairs : p[1] = k)[2]>>]

new100Message ==
    [code |-> 100, description |-> <<"C","a","p","a","b","i","l","i","t","i",
          "e","s">>,
     fields |-> Fields1({<<<<"S","e","n","d","-","C","o","n","f","i",
           "g">>, <<"t","r","u","e">>>>,
                         <<<<"V","e","r","s","i","o","n">>, <<"1",".",
                               "0">>>>})]

new101Message(text) ==
    [code |-> 101, description |-> <<"L","o","g">>,
     fields |-> Fields1({<<<<"M","e","s","s","a","g","e">>, text>>})]

new200Message(uri, size, lastModified) ==
    [code |-> 200, description |-> <<"U","R","I"," ","S","t","a","r","t">>,
     fields |-> Fields1({<<<<"U","R","I">>, uri>>, <<<<"S","i","z",
           "e">>, size>>,
                         <<<<"R","e","s","u","m","e","-","P","o","i","n",
                               "t">>, <<"0">>>>}
                        \cup IF lastModified # <<>>
                             THEN {<<<<"L","a","s","t","-","M","o","d","i",
                                   "f","i","e","d">>, lastModified>>}
                             ELSE {})]

\* A URI Done that carries Size and MD5-Hash next to IMS-Hit. Claim C22
\* must not hold of it.
new201Message_Mixed(uri, size, lastModified, md5Hash, filename, imsHit) ==
    [code |-> 201, description |-> <<"U","R","I"," ","D","o","n","e">>,
     fields |-> Fields1({<<<<"U","R","I">>, uri>>,
                         <<<<"L","a","s","t","-","M","o","d","i","f","i","e",
                               "d">>, lastModified>>,
                         <<<<"F","i","l","e","n","a","m","e">>, filename>>,
                         <<<<"S","i","z","e">>, size>>,
                         <<<<"M","D","5","-","H","a","s","h">>, md5Hash>>}
                        \cup IF imsHit THEN {<<<<"I","M","S","-","H","i",
                              "t">>, <<"t","r","u","e">>>>}
                             ELSE {})]

new201Message(uri, size, lastModified, md5Hash, filename, imsHit) ==
    [code |-> 201, description |-> <<"U","R","I"," ","D","o","n","e">>,
     fields |-> Fields1({<<<<"U","R","I">>, uri>>,
                         <<<<"L","a","s","t","-","M","o","d","i","f","i","e",
                               "d">>, lastModified>>,
                         <<<<"F","i","l","e","n","a","m","e">>, filename>>}
                        \cup IF imsHit
                             THEN {<<<<"I","M","S","-","H","i","t">>, <<"t",
                                   "r","u","e">>>>}
                             ELSE {<<<<"S","i","z","e">>, size>>,
                                   <<<<"M","D","5","-","H","a","s",
                                         "h">>, md5Hash>>})]

new400Message(uri, text) ==
    [code |-> 400, description |-> <<"U","R","I"," ","F","a","i","l","u","r",
          "e">>,
     fields |-> Fields1({<<<<"U","R","I">>, uri>>, <<<<"M","e","s","s","a",
           "g","e">>, text>>})]

new401Message(text) ==
    [code |-> 401, description |-> <<"G","e","n","e","r","a","l"," ","F","a",
          "i","l","u","r","e">>,
     fields |-> Fields1({<<<<"M","e","s","s","a","g","e">>, text>>})]

(***************************************************************************)
(* MessageWriter.                                                          *)
(***************************************************************************)
\* A writer that puts each message in front of the ones written before.
\* Claim C7 must not hold of it.
WriteMessage_Prepend(sink, m) == <<String(m)>> \o sink

\* MessageWriter.WriteMessage: one Write call with the bytes of m.String().
WriteMessage(sink, m) == Append(sink, String(m))

\* WriteMessage for each message of ms in turn.
RECURSIVE WriteAll(_, _)
WriteAll(sink, ms) ==
    IF ms = <<>> THEN sink
    ELSE WriteAll(WriteMessage(sink, ms[1]), Tail(ms))

(***************************************************************************)
(* Method: configuration and client.                                       *)
(***************************************************************************)
\* The zero value aptMethodConfig{} that NewAptMethod installs.
ZeroConfig ==
    [serviceAccountJSON |-> <<>>, serviceAccountEmail |-> <<>>,
     debug |-> FALSE]

\* A nil httpClient.
NoClient == [source |-> "nil", param |-> <<>>]

\* A client the caller installed before Run, as the tests do.
InjectedClient == [source |-> "injected", param |-> <<>>]

\* A nil *http.Response.
NoResponse == [status |-> 0, contentLength |-> <<>>, lastModified |-> <<>>]

\* A stringToBool for which every integer but 0 is true. Claim C36 must not
\* hold of it.
stringToBool_NonZero(s) ==
    LET i == Atoi(s)
    IN  IF i.ok THEN i.val # 0
        ELSE ToLower(s) \in { <<"y","e","s">>, <<"t","r","u","e">>, <<"w",
              "i","t","h">>, <<"o","n">>,
                              <<"e","n","a","b","l","e">> }

\* stringToBool
stringToBool(s) ==
    LET i == Atoi(s)
    IN  IF i.ok THEN i.val = 1
        ELSE ToLower(s) \in {<<"y","e","s">>, <<"t","r","u","e">>, <<"w","i",
              "t","h">>, <<"o","n">>, <<"e","n","a","b","l","e">>}

\* The switch of handleConfigure on the key of one Config-Item.
setConfigItem(cfg, key, value) ==
    IF key = <<"A","c","q","u","i","r","e",":",":","g","a","r",":",":","S",
          "e","r","v","i","c","e","-","A","c","c","o","u","n","t","-","J",
          "S","O","N">>
    THEN [cfg EXCEPT !.serviceAccountJSON = TrimSpace(value)]
    ELSE IF key = <<"A","c","q","u","i","r","e",":",":","g","a","r",":",":",
          "S","e","r","v","i","c","e","-","A","c","c","o","u","n","t","-",
          "E","m","a","i","l">>
    THEN [cfg EXCEPT !.serviceAccountEmail = TrimSpace(value)]
    ELSE IF key = <<"D","e","b","u","g",":",":","A","c","q","u","i","r","e",
          ":",":","g","a","r">>
    THEN [cfg EXCEPT !.debug = stringToBool(TrimSpace(value))]
    ELSE cfg

\* A loop that logs the first item without "=" and goes on with the items
\* after it. Claim C24 must not hold of it.
RECURSIVE applyConfigItems_SkipBad(_, _)
applyConfigItems_SkipBad(cfg, items) ==
    IF items = <<>> THEN [config |-> cfg, malformed |-> FALSE, item |-> <<>>]
    ELSE LET parts == SplitN2(items[1], "=")
         IN  IF Len(parts) # 2
             THEN [config |->
                       applyConfigItems_SkipBad(cfg, Tail(items)).config,
                   malformed |-> TRUE, item |-> items[1]]
             ELSE applyConfigItems_SkipBad(
                      setConfigItem(cfg, parts[1], parts[2]), Tail(items))

\* The loop of handleConfigure over the Config-Item values: the
\* configuration when the loop ends, and the item that made it return early.
RECURSIVE applyConfigItems(_, _)
applyConfigItems(cfg, items) ==
    IF items = <<>> THEN [config |-> cfg, malformed |-> FALSE, item |-> <<>>]
    ELSE LET parts == SplitN2(items[1], "=")
         IN  IF Len(parts) # 2
             THEN [config |-> cfg, malformed |-> TRUE, item |-> items[1]]
             ELSE applyConfigItems(setConfigItem(cfg, parts[1], parts[2]),
                                   Tail(items))

\* Method.handleConfigure: the configuration afterwards and the messages
\* written.
handleConfigure(cfg, m) ==
    IF <<"C","o","n","f","i","g","-","I","t","e","m">> \notin DOMAIN m.fields
    THEN [config |-> cfg, written |-> <<>>]
    ELSE LET r == applyConfigItems(cfg, m.fields[<<"C","o","n","f","i","g",
          "-","I","t","e","m">>])
         IN  IF r.malformed
             THEN [config |-> r.config,
                   written |-> <<new101Message(
                       <<"m","a","l","f","o","r","m","e","d"," ","c","o","n",
                             "f","i","g"," ","i","t","e","m",":",
                             " ">> \o r.item)>>]
             ELSE [config |->
                       IF r.config.serviceAccountJSON # <<>>
                       THEN [r.config EXCEPT !.serviceAccountEmail = <<>>]
                       ELSE r.config,
                   written |-> <<>>]

\* What the credential libraries can do when initClient calls them:
\* succeed, fail in os.ReadFile, fail in google.CredentialsFromJSON or
\* google.FindDefaultCredentials, or deliver a nil token source.
\* google.ComputeTokenSource cannot fail.
CredOutcomes(cfg, cl) ==
    IF cl # NoClient THEN {"ok"}
    ELSE IF cfg.serviceAccountJSON # <<>>
    THEN {"ok", "readfile", "creds", "nil"}
    ELSE IF cfg.serviceAccountEmail # <<>> THEN {"ok"}
    ELSE {"ok", "creds", "nil"}

\* A switch of initClient whose first case is the email. Claim C27 must not
\* hold of it.
credSource_EmailFirst(cfg) ==
    IF cfg.serviceAccountEmail # <<>>
    THEN [source |-> "email", param |-> cfg.serviceAccountEmail]
    ELSE IF cfg.serviceAccountJSON # <<>>
    THEN [source |-> "json", param |-> cfg.serviceAccountJSON]
    ELSE [source |-> "default", param |-> <<>>]

\* The credential source the switch of initClient selects.
credSource(cfg) ==
    IF cfg.serviceAccountJSON # <<>>
    THEN [source |-> "json", param |-> cfg.serviceAccountJSON]
    ELSE IF cfg.serviceAccountEmail # <<>>
    THEN [source |-> "email", param |-> cfg.serviceAccountEmail]
    ELSE [source |-> "default", param |-> <<>>]

\* An initClient without the check of m.client: it resolves the credential
\* source on every call. Claim C26 must not hold of it.
initClient_Reresolve(cfg, cl, outcome) ==
    IF outcome = "ok" THEN [err |-> <<>>, client |-> credSource(cfg)]
    ELSE [err |-> <<"f","a","i","l","e","d"," ","t","o"," ","o","b","t","a",
          "i","n"," ","c","r","e","d","s">>, client |-> cl]

\* An initClient that returns nil when no credential source could be
\* obtained. Claim C28 must not hold of it.
initClient_Swallow(cfg, cl, outcome) ==
    IF cl # NoClient THEN [err |-> <<>>, client |-> cl]
    ELSE IF outcome = "ok" THEN [err |-> <<>>, client |-> credSource(cfg)]
    ELSE [err |-> <<>>, client |-> cl]

\* An initClient that assigns m.client before it looks at the error of the
\* credential library. Claim C30 must not hold of it.
initClient_HalfSet(cfg, cl, outcome) ==
    IF cl # NoClient THEN [err |-> <<>>, client |-> cl]
    ELSE IF outcome = "ok" THEN [err |-> <<>>, client |-> credSource(cfg)]
    ELSE [err |-> <<"f","a","i","l","e","d"," ","t","o"," ","o","b","t","a",
          "i","n"," ","c","r","e","d","s">>, client |-> credSource(cfg)]

\* Method.initClient: the error returned and m.client afterwards.
initClient(cfg, cl, outcome) ==
    IF cl # NoClient THEN [err |-> <<>>, client |-> cl]
    ELSE IF outcome = "readfile"
    THEN [err |-> <<"f","a","i","l","e","d"," ","t","o"," ","r","e","a","d",
          " ","s","e","r","v","i","c","e"," ","a","c","c","o","u","n","t",
          " ","J","S","O","N"," ","f","i","l","e",":"," ","e","n","o","e",
          "n","t">>,
          client |-> cl]
    ELSE IF outcome = "creds" /\ cfg.serviceAccountJSON # <<>>
    THEN [err |-> <<"f","a","i","l","e","d"," ","t","o"," ","o","b","t","a",
          "i","n"," ","c","r","e","d","s"," ","f","r","o","m"," ","s","e",
          "r","v","i","c","e"," ","a","c","c","o","u","n","t"," ","J","S",
          "O","N",":"," ","b","a","d">>,
          client |-> cl]
    ELSE IF outcome = "creds"
    THEN [err |-> <<"f","a","i","l","e","d"," ","t","o"," ","o","b","t","a",
          "i","n"," ","d","e","f","a","u","l","t"," ","c","r","e","d","s",
          ":"," ","n","o","n","e">>, client |-> cl]
    ELSE IF outcome = "nil"
    THEN [err |-> <<"f","a","i","l","e","d"," ","t","o"," ","o","b","t","a",
          "i","n"," ","c","r","e","d","s">>, client |-> cl]
    ELSE [err |-> <<>>, client |-> credSource(cfg)]

\* Whether http.NewRequest accepts the URL: url.Parse rejects, among
\* others, a URL with a control character and one that begins with a colon
\* ("missing protocol scheme").
URLParses(url) ==
    /\ url # <<>>
    /\ url[1] # ":"
    /\ Range(url) \cap {"\t", "\n", "\r"} = {}

\* A request built without the If-Modified-Since header. Claim C35 must not
\* hold of it.
newRequest_NoHeader(uri, ifModifiedSince) ==
    [url |-> ReplaceFirst(uri, <<"a","r","+","h","t","t","p","s">>, <<"h",
          "t","t","p","s">>),
     ifModifiedSince |-> <<>>]

\* The request handleAcquire builds; ifModifiedSince is <<>> when the
\* header is not added.
newRequest(uri, ifModifiedSince) ==
    [url |-> ReplaceFirst(uri, <<"a","r","+","h","t","t","p","s">>, <<"h",
          "t","t","p","s">>),
     ifModifiedSince |-> ifModifiedSince]

\* httputil.DumpRequest(req, true): request line and headers, each ended by
\* "\r\n", and an empty line. (Without a body the dump cannot fail.)
DumpRequest(req) ==
    <<"G","E","T"," ">> \o req.url \o <<" ","H","T","T","P","/","1",".","1",
          "\r","\n">>
    \o (IF req.ifModifiedSince # <<>>
        THEN <<"I","f","-","M","o","d","i","f","i","e","d","-","S","i","n",
              "c","e",":"," ">> \o req.ifModifiedSince \o <<"\r","\n">>
        ELSE <<>>)
    \o <<"\r","\n">>

\* httputil.DumpResponse(resp, false)
DumpResponse(r) ==
    <<"H","T","T","P","/","1",".","1"," ">> \o Itoa(r.status) \o <<"\r","\n">>
    \o (IF r.contentLength # <<>>
        THEN <<"C","o","n","t","e","n","t","-","L","e","n","g","t","h",":",
              " ">> \o r.contentLength \o <<"\r","\n">>
        ELSE <<>>)
    \o (IF r.lastModified # <<>>
        THEN <<"L","a","s","t","-","M","o","d","i","f","i","e","d",":",
              " ">> \o r.lastModified \o <<"\r","\n">>
        ELSE <<>>)
    \o <<"\r","\n">>

\* What client.Do can return: a transport error without a response, or a
\* response with a status and with or without the two headers read.
HTTPOutcomes ==
    {[err |-> <<"c","o","n","n","e","c","t","i","o","n"," ","r","e","f","u",
          "s","e","d">>, resp |-> NoResponse]}
    \cup {[err |-> <<>>,
           resp |-> [status |-> s, contentLength |-> cl, lastModified |-> lm]] :
            s \in {200, 304, 404}, cl \in {<<>>, <<"2","0","0">>},
            lm \in {<<>>, <<"M","o","n">>}}

\* What dl.download can return: the hash, or an error.
DownloadOutcomes ==
    {[err |-> <<>>, md5Hash |-> <<"a","b","1","2">>],
     [err |-> <<"d","i","s","k"," ","f","u","l","l">>, md5Hash |-> <<>>]}

(***************************************************************************)
(* Codec harness: a Message is written with WriteMessage and the bytes are  *)
(* piped into a MessageReader, as the tests of the package do.             *)
(***************************************************************************)
CodecCodes == {0, 123, -7}

\* "Fake", "", " D", "D ", "a b", "D\nx", "D\n"
CodecDescriptions ==
    { <<"F","a","k","e">>, <<>>, <<" ","D">>, <<"D"," ">>, <<"a"," ","b">>,
      <<"D","\n","x">>, <<"D","\n">> }

\* "a", "Z", "Za", "", "b:c", " k"
CodecNames ==
    { <<"a">>, <<"Z">>, <<"Z","a">>, <<>>, <<"b",":","c">>, <<" ","k">> }

\* "v", "w x", "", " v", "v\nw", "\r\n", "v\r\n\nw"
CodecValues ==
    { <<"v">>, <<"w"," ","x">>, <<>>, <<" ","v">>, <<"v","\n","w">>,
      <<"\r","\n">>, <<"v","\r","\n","\n","w">> }

\* fields[key] = append(fields[key], value)
AppendValue(fields, key, value) ==
    SetField(fields, key,
             Append(IF key \in DOMAIN fields THEN fields[key] ELSE <<>>,
                    value))

\* "a", "Z", "Za", "b:c" and "v", "w x", "", "v\nw": the names and values
\* of the maps built in several steps.
CodecCoreNames == { <<"a">>, <<"Z">>, <<"Z","a">>, <<"b",":","c">> }

CodecCoreValues == { <<"v">>, <<"w"," ","x">>, <<>>, <<"v","\n","w">> }

\* The field maps built by at most n steps, each appending a value under a
\* name or adding a name with an empty value list.
RECURSIVE BuiltFields(_, _, _)
BuiltFields(n, names, values) ==
    IF n = 0 THEN {NoFields}
    ELSE LET prev == BuiltFields(n - 1, names, values)
         IN  prev
             \cup {AppendValue(f, k, v) : f \in prev, k \in names, v \in values}
             \cup {SetField(f, k, <<>>) : f \in prev, k \in names}

\* The messages of the harness: every header with the maps of one step over
\* all names and values, and one header with the maps of MaxInserts steps
\* over the core names and values.
CodecMessages ==
    {[code |-> c, description |-> d, fields |-> f] :
        c \in CodecCodes, d \in CodecDescriptions,
        f \in BuiltFields(1, CodecNames, CodecValues)}
    \cup {[code |-> 123, description |-> <<"F","a","k","e">>, fields |-> f] :
            f \in BuiltFields(MaxInserts, CodecCoreNames, CodecCoreValues)}

InitCodec ==
    /\ pc = "write"
    /\ tmsg \in CodecMessages
    /\ ret = "running"
    /\ cancelled = FALSE
    /\ input = <<>>
    /\ message = NilMessage
    /\ msg = NilMessage
    /\ rerr = NoError
    /\ config = ZeroConfig
    /\ client = NoClient
    /\ resp = NoResponse
    /\ out = <<>>
    /\ sent = <<>>
    /\ nread = 0
    /\ requests = <<>>
    /\ downloads = <<>>
    /\ credTries = <<>>
    /\ nlines = 0

\* writer.WriteMessage(tmsg) on a pipe whose other end the reader reads; the
\* range loop of Message.String may deliver the keys in any order.
CodecWriteMessage ==
    /\ pc = "write"
    /\ \E rangeOrder \in MapKeyOrders(tmsg.fields) :
           out' = Append(out, StringRanged(tmsg, rangeOrder))
    /\ input' = Lines(out'[1])
    /\ sent' = Append(sent, [m |-> tmsg, by |-> 0])
    /\ pc' = "read"
    /\ UNCHANGED <<ret, cancelled, message, msg, rerr, config, client, resp,
                   nread, requests, downloads, credTries, nlines, tmsg>>

\* One iteration of the loop of reader.ReadMessage(context.Background()):
\* ReadString delivers the next line, or io.EOF once the pipe is drained.
CodecReadLine ==
    /\ pc = "read"
    /\ IF input = <<>>
       THEN /\ rerr' = "EOF"
            /\ msg' = NilMessage
            /\ pc' = "returned"
            /\ UNCHANGED <<input, message, nread>>
       ELSE LET r == readLine(message, Head(input))
            IN  /\ input' = Tail(input)
                /\ message' = r.message
                /\ IF r.returns
                   THEN /\ msg' = r.msg
                        /\ rerr' = r.err
                        /\ nread' = IF r.err = NoError THEN nread + 1
                                    ELSE nread
                        /\ pc' = "returned"
                   ELSE UNCHANGED <<msg, rerr, nread, pc>>
    /\ UNCHANGED <<ret, cancelled, config, client, resp, out, sent,
                   requests, downloads, credTries, nlines, tmsg>>

NextCodec == CodecWriteMessage \/ CodecReadLine

SpecCodec == InitCodec /\ [][NextCodec]_vars

(***************************************************************************)
(* The input streams given to Run: messages written by a MessageWriter, as *)
(* apt and the tests write them, and raw lines.                            *)
(***************************************************************************)
\* A map literal with one key and the given values.
FieldsOf(key, vals) == [k \in {key} |-> vals]

Acquire(fields) ==
    Lines(String([code |-> 600, description |-> <<"U","R","I"," ","A","c",
          "q","u","i","r","e">>,
                  fields |-> fields]))

Configuration(items) ==
    Lines(String([code |-> 601, description |-> <<"C","o","n","f","i","g",
          "u","r","a","t","i","o","n">>,
                  fields |-> IF items = <<>> THEN NoFields
                             ELSE FieldsOf(<<"C","o","n","f","i","g","-","I",
                                   "t","e","m">>, items)]))

\* The messages an input stream is made of.
InputMessages ==
    { Acquire(Fields1({<<<<"U","R","I">>, <<"a","r","+","h","t","t","p","s",
          ":","/","/","h","/","p">>>>,
                       <<<<"F","i","l","e","n","a","m","e">>, <<"/",
                             "f">>>>})),
      Acquire(Fields1({<<<<"U","R","I">>, <<"a","r","+","h","t","t","p","s",
            ":","/","/","h","/","p">>>>,
                       <<<<"F","i","l","e","n","a","m","e">>, <<"/","f">>>>,
                       <<<<"L","a","s","t","-","M","o","d","i","f","i","e",
                             "d">>, <<"S","u","n">>>>})),
      Acquire(Fields1({<<<<"F","i","l","e","n","a","m","e">>, <<"/",
            "f">>>>})),
      Acquire(Fields1({<<<<"U","R","I">>, <<"a","r","+","h","t","t","p","s",
            ":","/","/","h","/","p">>>>})),
      Acquire(Fields1({<<<<"U","R","I">>, <<":","x">>>>, <<<<"F","i","l","e",
            "n","a","m","e">>, <<"/","f">>>>})),
      Configuration(<<<<"A","c","q","u","i","r","e",":",":","g","a","r",":",
            ":","S","e","r","v","i","c","e","-","A","c","c","o","u","n","t",
            "-","J","S","O","N","=","/","k">>>>),
      Configuration(<<<<"A","c","q","u","i","r","e",":",":","g","a","r",":",
            ":","S","e","r","v","i","c","e","-","A","c","c","o","u","n","t",
            "-","E","m","a","i","l","=","e">>>>),
      Configuration(<<<<"A","c","q","u","i","r","e",":",":","g","a","r",":",
            ":","S","e","r","v","i","c","e","-","A","c","c","o","u","n","t",
            "-","J","S","O","N","=","/","k">>,
                      <<"A","c","q","u","i","r","e",":",":","g","a","r",":",
                            ":","S","e","r","v","i","c","e","-","A","c","c",
                            "o","u","n","t","-","E","m","a","i","l","=",
                            "e">>>>),
      Configuration(<<<<"A","c","q","u","i","r","e",":",":","g","a","r",":",
            ":","S","e","r","v","i","c","e","-","A","c","c","o","u","n","t",
            "-","E","m","a","i","l","=","e">>,
                      <<"A","c","q","u","i","r","e",":",":","g","a","r",":",
                            ":","S","e","r","v","i","c","e","-","A","c","c",
                            "o","u","n","t","-","J","S","O","N","=","/",
                            "k">>>>),
      Configuration(<<<<"A","c","q","u","i","r","e",":",":","g","a","r",":",
            ":","S","e","r","v","i","c","e","-","A","c","c","o","u","n","t",
            "-","J","S","O","N","=","/","k">>, <<"b","a","d">>,
                      <<"A","c","q","u","i","r","e",":",":","g","a","r",":",
                        ":","S","e","r","v","i","c","e","-","A","c","c","o",
                        "u","n","t","-","E","m","a","i","l","=","e">>>>),
      Configuration(<<<<"D","e","b","u","g",":",":","A","c","q","u","i","r",
            "e",":",":","g","a","r","=","1">>>>),
      Configuration(<<<<"o","t","h","e","r","=","1">>>>),
      Configuration(<<>>),
      Lines(String([code |-> 700, description |-> <<"B","o","g","u","s"," ",
            "m","e","t","h","o","d">>,
                    fields |-> NoFields])),
      << <<>> >> }

\* Lines that are no message: a line that is no header, a header followed
\* by a line that is no field, and a message that lacks its blank line.
InputFragments ==
    { << <<"b","a","d">> >>,
      << <<"6","0","0"," ","U","R","I"," ","A","c","q","u","i","r","e">>,
         <<"b","a","d">> >>,
      << <<"6","0","0"," ","U","R","I"," ","A","c","q","u","i","r","e">>,
         <<"U","R","I",":"," ","a","r","+","h","t","t","p","s",":","/","/",
           "h","/","p">> >> }

(***************************************************************************)
(* Reader harness: raw bytes are put in a buffer and ReadMessage is called *)
(* on it, as TestAptReaderReadMessage does.                                *)
(***************************************************************************)
\* "123 Fake Header", " 600  URI Acquire ", "123FakeCode"
ReaderHeaders ==
    { <<"1","2","3"," ","F","a","k","e"," ","H","e","a","d","e","r">>, <<" ",
          "6","0","0"," "," ","U","R","I"," ","A","c","q","u","i","r","e",
          " ">>, <<"1","2","3","F","a","k","e","C","o","d","e">> }

\* "Field1: val1", "Field2: val2", "Field2: val3", "Field1: val4", a second
\* "Field1: val1" written " Field1 :val1", and "Field1 = val1"
ReaderFieldLines ==
    { <<"F","i","e","l","d","1",":"," ","v","a","l","1">>, <<"F","i","e","l",
          "d","2",":"," ","v","a","l","2">>, <<"F","i","e","l","d","2",":",
          " ","v","a","l","3">>, <<"F","i","e","l","d","1",":"," ","v","a",
          "l","4">>,
      <<" ","F","i","e","l","d","1"," ",":","v","a","l","1">>, <<"F","i","e",
            "l","d","1"," ","="," ","v","a","l","1">> }

\* The sequences of at most n lines over the set lines.
RECURSIVE LineSeqs(_, _)
LineSeqs(n, lines) ==
    IF n = 0 THEN { <<>> }
    ELSE LET prev == LineSeqs(n - 1, lines)
         IN  prev \cup {Append(ls, l) : ls \in prev, l \in lines}

\* The bytes of the lines ls, each ended by "\n".
RECURSIVE Unlines(_)
Unlines(ls) ==
    IF ls = <<>> THEN <<>>
    ELSE ls[1] \o <<"\n">> \o Unlines(Tail(ls))

\* The contents of the buffer: a header line, at most MaxInserts field
\* lines and a blank line.
ReaderInputs ==
    {Unlines(<<h>> \o fs \o << <<>> >>) :
        h \in ReaderHeaders, fs \in LineSeqs(MaxInserts, ReaderFieldLines)}

InitReader ==
    /\ pc = "read"
    /\ \E bytes \in ReaderInputs :
           /\ out = <<bytes>>
           /\ input = Lines(bytes)
    /\ tmsg = NilMessage
    /\ ret = "running"
    /\ cancelled = FALSE
    /\ message = NilMessage
    /\ msg = NilMessage
    /\ rerr = NoError
    /\ config = ZeroConfig
    /\ client = NoClient
    /\ resp = NoResponse
    /\ sent = <<>>
    /\ nread = 0
    /\ requests = <<>>
    /\ downloads = <<>>
    /\ credTries = <<>>
    /\ nlines = 0

SpecReader == InitReader /\ [][CodecReadLine]_vars

(***************************************************************************)
(* Parser harness: parseHeader and parseField are called on a reader with  *)
(* a given message in progress, as TestAptReaderParseHeaderFail and        *)
(* TestAptReaderParseFieldFail do.                                         *)
(***************************************************************************)
\* AptMessage{}, AptMessage{code: 123}, AptMessage{description: "blah"},
\* a message with a field, and a message with header and field.
ParseMessages ==
    { ZeroMessage,
      [ZeroMessage EXCEPT !.code = 123],
      [ZeroMessage EXCEPT !.description = <<"b","l","a","h">>],
      [ZeroMessage EXCEPT !.fields = FieldsOf(<<"F","i","e","l","d",
            "1">>, <<<<"v","a","l","1">>>>)],
      [code |-> 600, description |-> <<"U","R","I"," ","A","c","q","u","i",
            "r","e">>,
       fields |-> FieldsOf(<<"F","i","e","l","d","1">>, <<<<"v","a","l",
             "1">>>>)] }

\* The lines of the tests and some more.
ParseLines ==
    { <<"1","2","3"," ","F","a","k","e"," ","C","o","d","e">>, <<"1","2","3",
          "F","a","k","e","C","o","d","e">>, <<"X","x","x"," ","F","a","k",
          "e"," ","C","o","d","e">>, <<>>,
      <<"6","0","0"," ","U","R","I"," ","A","c","q","u","i","r","e">>, <<" ",
            "7"," "," ","x"," ">>, <<"-","7"," ","x">>, <<"1","2","3",
            " ">>, <<" ">>,
      <<"1","x"," ","y">>, <<"F","i","e","l","d","1",":"," ","v","a","l",
            "1">>, <<"F","i","e","l","d","1",":"," ","v","a","l",
            "2">>, <<"F","i","e","l","d","1"," ","="," ","v","a","l","1">>,
      <<":","v","a","l","1">>, <<" ",":"," ","v","a","l","1">>, <<"F","i",
            "e","l","d","1",":">>, <<"F","i","e","l","d","1",":"," ",
            " ">>, <<"a",":"," ","v",":"," ","w">>,
      <<" ","a"," ","b"," ",":","v"," ">> }

InitParse ==
    /\ pc \in {"parseHeader", "parseField"}
    /\ tmsg \in ParseMessages
    /\ message = tmsg
    /\ \E line \in ParseLines : input = <<line>>
    /\ out = <<>>
    /\ ret = "running"
    /\ cancelled = FALSE
    /\ msg = NilMessage
    /\ rerr = NoError
    /\ config = ZeroConfig
    /\ client = NoClient
    /\ resp = NoResponse
    /\ sent = <<>>
    /\ nread = 0
    /\ requests = <<>>
    /\ downloads = <<>>
    /\ credTries = <<>>
    /\ nlines = 0

\* reader.parseHeader(line) on a reader whose message is tmsg.
CallParseHeader ==
    /\ pc = "parseHeader"
    /\ LET r == parseHeader(message, input[1])
       IN  /\ message' = r.message
           /\ rerr' = r.err
    /\ pc' = "parseHeader returned"
    /\ UNCHANGED <<ret, cancelled, input, msg, config, client, resp, out,
                   sent, nread, requests, downloads, credTries, nlines, tmsg>>

\* reader.parseField(line) on a reader whose message is tmsg.
CallParseField ==
    /\ pc = "parseField"
    /\ LET r == parseField(message, input[1])
       IN  /\ message' = r.message
           /\ rerr' = r.err
    /\ pc' = "parseField returned"
    /\ UNCHANGED <<ret, cancelled, input, msg, config, client, resp, out,
                   sent, nread, requests, downloads, credTries, nlines, tmsg>>

NextParse == CallParseHeader \/ CallParseField

SpecParse == InitParse /\ [][NextParse]_vars

(***************************************************************************)
(* Reader harness for repeated calls: ReadMessage is called again and      *)
(* again on one reader, also after a call that returned an error, until    *)
(* the buffer is drained.                                                  *)
(***************************************************************************)
\* The number of lines in the buffer.
MaxCallLines == 5

\* The lines: a header, a line that is neither a header nor a field, a
\* field, an empty line and a line of white space.
CallLines ==
    { <<"6","0","0"," ","U","R","I"," ","A","c","q","u","i","r","e">>, <<"b",
          "a","d">>, <<"U","R","I",":"," ","u">>, <<>>, <<" ">> }

InitCalls ==
    /\ pc = "read"
    /\ \E ls \in LineSeqs(MaxCallLines, CallLines) :
           /\ out = <<Unlines(ls)>>
           /\ input = ls
    /\ tmsg = NilMessage
    /\ ret = "running"
    /\ cancelled = FALSE
    /\ message = NilMessage
    /\ msg = NilMessage
    /\ rerr = NoError
    /\ config = ZeroConfig
    /\ client = NoClient
    /\ resp = NoResponse
    /\ sent = <<>>
    /\ nread = 0
    /\ requests = <<>>
    /\ downloads = <<>>
    /\ credTries = <<>>
    /\ nlines = 0

\* The caller calls ReadMessage again after a call that returned a message
\* or an error other than io.EOF; tmsg keeps what the last call returned.
ReadMessageAgain ==
    /\ pc = "returned"
    /\ rerr # "EOF"
    /\ pc' = "read"
    /\ tmsg' = msg
    /\ nlines' = Len(Lines(out[1])) - Len(input)
    /\ UNCHANGED <<ret, cancelled, input, message, msg, rerr, config, client,
                   resp, out, sent, nread, requests, downloads, credTries>>

NextCalls == CodecReadLine \/ ReadMessageAgain

SpecCalls == InitCalls /\ [][NextCalls]_vars

(***************************************************************************)
(* Configuration harness: handleConfigure is called on a Method with       *)
(* Configuration messages built in memory, as TestHandleConfigure does.    *)
(***************************************************************************)
\* The Config-Item values: the three recognized keys, an empty and a blank
\* value, a key that is not recognized and an item without "=".
ConfigItems ==
    { <<"A","c","q","u","i","r","e",":",":","g","a","r",":",":","S","e","r",
          "v","i","c","e","-","A","c","c","o","u","n","t","-","J","S","O",
          "N","=","/","k">>,
      <<"A","c","q","u","i","r","e",":",":","g","a","r",":",":","S","e","r",
            "v","i","c","e","-","A","c","c","o","u","n","t","-","J","S","O",
            "N","=">>,
      <<"A","c","q","u","i","r","e",":",":","g","a","r",":",":","S","e","r",
            "v","i","c","e","-","A","c","c","o","u","n","t","-","E","m","a",
            "i","l","=","e">>,
      <<"A","c","q","u","i","r","e",":",":","g","a","r",":",":","S","e","r",
            "v","i","c","e","-","A","c","c","o","u","n","t","-","E","m","a",
            "i","l","="," ">>,
      <<"D","e","b","u","g",":",":","A","c","q","u","i","r","e",":",":","g",
            "a","r","=","1">>,
      <<"s","o","m","e",":",":","o","t","h","e","r",":",":","c","o","n","f",
            "i","g","=","v","a","l","u","e">>,
      <<"b","a","d">> }

\* The Configuration messages: with no Config-Item field, and with a list
\* of at most MaxInserts values.
ConfigMessages ==
    {[code |-> 601, description |-> <<"C","o","n","f","i","g","u","r","a",
          "t","i","o","n">>, fields |-> NoFields]}
    \cup {[code |-> 601, description |-> <<"C","o","n","f","i","g","u","r",
          "a","t","i","o","n">>,
           fields |-> FieldsOf(<<"C","o","n","f","i","g","-","I","t","e",
                 "m">>, items)] :
            items \in LineSeqs(MaxInserts, ConfigItems)}

\* The number of acquisitions that call initClient on one Method.
MaxResolves == 2

\* The Configuration messages that arrive after an acquisition failed for
\* want of credentials: with no Config-Item field, and with one value that
\* sets or clears the JSON path, sets the email, or has a key that is not
\* recognized.
LaterConfigMessages ==
    LET k == <<"C","o","n","f","i","g","-","I","t","e","m">>
        j == <<"A","c","q","u","i","r","e",":",":","g","a","r",":",":","S",
              "e","r","v","i","c","e","-","A","c","c","o","u","n","t","-",
              "J","S","O","N","=","/","k">>
        c == <<"A","c","q","u","i","r","e",":",":","g","a","r",":",":","S",
              "e","r","v","i","c","e","-","A","c","c","o","u","n","t","-",
              "J","S","O","N","=">>
        e == <<"A","c","q","u","i","r","e",":",":","g","a","r",":",":","S",
              "e","r","v","i","c","e","-","A","c","c","o","u","n","t","-",
              "E","m","a","i","l","=","e">>
        o == <<"s","o","m","e",":",":","o","t","h","e","r",":",":","c","o",
              "n","f","i","g","=","v","a","l","u","e">>
    IN  {m \in ConfigMessages :
            \/ k \notin DOMAIN m.fields
            \/ m.fields[k] \in {<<j>>, <<c>>, <<e>>, <<o>>}}

\* The configurations a Method can hold when a Configuration message
\* arrives: the zero configuration and what handleConfigure made of it for
\* an earlier message with at most one Config-Item value.
PriorConfigs ==
    {handleConfigure(ZeroConfig, m).config :
        m \in {c \in ConfigMessages :
                  \/ <<"C","o","n","f","i","g","-","I","t","e",
                        "m">> \notin DOMAIN c.fields
                  \/ Len(c.fields[<<"C","o","n","f","i","g","-","I","t","e",
                        "m">>]) <= 1}}

InitConfigure ==
    /\ pc = "configure"
    /\ config \in PriorConfigs
    /\ msg = NilMessage
    /\ nread = 0
    /\ out = <<>>
    /\ sent = <<>>
    /\ tmsg = NilMessage
    /\ ret = "running"
    /\ cancelled = FALSE
    /\ input = <<>>
    /\ message = NilMessage
    /\ rerr = NoError
    /\ client = NoClient
    /\ resp = NoResponse
    /\ requests = <<>>
    /\ downloads = <<>>
    /\ credTries = <<>>
    /\ nlines = 0

\* method.handleConfigure(msg) with the next Configuration message.
CallHandleConfigure ==
    /\ pc = "configure"
    /\ \E m \in IF nread = 0 THEN ConfigMessages ELSE LaterConfigMessages :
           LET r == handleConfigure(config, m)
           IN  /\ msg' = m
               /\ config' = r.config
               /\ out' = WriteAll(out, r.written)
               /\ sent' = sent \o [i \in DOMAIN r.written |->
                                      [m |-> r.written[i], by |-> nread + 1]]
    /\ pc' = "configured"
    /\ nread' = nread + 1
    /\ UNCHANGED <<ret, cancelled, input, message, rerr, client, resp,
                   requests, downloads, credTries, nlines, tmsg>>

\* method.initClient(ctx), called on the Method so configured, as an
\* acquisition does while the client is unset.
CallInitClient ==
    /\ pc = "configured"
    /\ \E outcome \in CredOutcomes(config, client) :
           LET ic == initClient(config, client, outcome)
           IN  /\ credTries' = Append(credTries,
                                      [source |-> credSource(config),
                                       outcome |-> outcome, by |-> nread])
               /\ client' = ic.client
               /\ ret' = IF ic.err = <<>> THEN "nil" ELSE "error"
    /\ pc' = "initClient returned"
    /\ UNCHANGED <<cancelled, input, message, msg, rerr, config, resp, out,
                   sent, nread, requests, downloads, nlines, tmsg>>

\* handleAcquire has reported the failure of initClient and returned; the
\* Method goes on to its next messages.
AfterCredFailure ==
    /\ pc = "initClient returned"
    /\ ret = "error"
    /\ Len(credTries) < MaxResolves
    /\ pc' = "configure"
    /\ ret' = "running"
    /\ UNCHANGED <<cancelled, input, message, msg, rerr, config, client,
                   resp, out, sent, nread, requests, downloads, credTries,
                   nlines, tmsg>>

NextConfigure == CallHandleConfigure \/ CallInitClient \/ AfterCredFailure

SpecConfigure == InitConfigure /\ [][NextConfigure]_vars

(***************************************************************************)
(* Debug harness: handleConfigure is called with a Configuration message   *)
(* whose only item is Debug::Acquire::gar with some value.                 *)
(***************************************************************************)
\* The length of the values made of DebugChars.
MaxDebugLen == 3

DebugChars == {"0", "1", "2", "+", "-", "o", "N", " "}

\* Values the tests of apt's StringToBool and of this package use, and
\* some near them.
DebugWords ==
    { <<"y","e","s">>, <<"Y","e","s">>, <<"Y","E","S">>, <<"t","r","u",
          "e">>, <<"T","r","u","e">>, <<"w","i","t","h">>, <<"o","n">>,
      <<"e","n","a","b","l","e">>, <<"E","N","A","B","L","E">>, <<"n",
            "o">>, <<"f","a","l","s","e">>, <<"w","i","t","h","o","u",
            "t">>, <<"o","f","f">>,
      <<"d","i","s","a","b","l","e">>, <<"e","n","a","b","l","e",
            "d">>, <<"y">>, <<"t">>, <<"y","e","s"," ">>, <<" ","t","r","u",
            "e">>,
      <<"y","e","s","1">>, <<"1","y","e","s">>, <<"1",".","0">>, <<"0","x",
            "1">>, <<"o","n","e">> }

\* The values of the item.
DebugValues == DebugWords \cup LineSeqs(MaxDebugLen, DebugChars)

\* The Configuration message with the one item Debug::Acquire::gar=value.
DebugMessage(value) ==
    [code |-> 601, description |-> <<"C","o","n","f","i","g","u","r","a","t",
          "i","o","n">>,
     fields |-> FieldsOf(<<"C","o","n","f","i","g","-","I","t","e","m">>,
                         << <<"D","e","b","u","g",":",":","A","c","q","u",
                               "i","r","e",":",":","g","a","r",
                               "=">> \o value >>)]

InitDebug ==
    /\ pc = "configure"
    /\ config \in {ZeroConfig, [ZeroConfig EXCEPT !.debug = TRUE]}
    /\ msg = NilMessage
    /\ nread = 0
    /\ out = <<>>
    /\ sent = <<>>
    /\ tmsg = NilMessage
    /\ ret = "running"
    /\ cancelled = FALSE
    /\ input = <<>>
    /\ message = NilMessage
    /\ rerr = NoError
    /\ client = NoClient
    /\ resp = NoResponse
    /\ requests = <<>>
    /\ downloads = <<>>
    /\ credTries = <<>>
    /\ nlines = 0

\* method.handleConfigure(msg) with the message for one of the values; the
\* value is kept in input.
CallConfigureDebug ==
    /\ pc = "configure"
    /\ \E value \in DebugValues :
           LET r == handleConfigure(config, DebugMessage(value))
           IN  /\ msg' = DebugMessage(value)
               /\ input' = <<value>>
               /\ config' = r.config
               /\ out' = WriteAll(out, r.written)
               /\ sent' = sent \o [i \in DOMAIN r.written |->
                                      [m |-> r.written[i], by |-> nread + 1]]
    /\ pc' = "configured"
    /\ nread' = nread + 1
    /\ UNCHANGED <<ret, cancelled, message, rerr, client, resp, requests,
                   downloads, credTries, nlines, tmsg>>

SpecDebug == InitDebug /\ [][CallConfigureDebug]_vars

(***************************************************************************)
(* Get harness: Message.Get is called on messages built in memory, as      *)
(* TestAptMessageGet does.                                                 *)
(***************************************************************************)
\* "key", "some-other-key"
GetKeys == { <<"k","e","y">>, <<"s","o","m","e","-","o","t","h","e","r","-",
      "k","e","y">> }

\* "val1", "val2", ""
GetValues == { <<"v","a","l","1">>, <<"v","a","l","2">>, <<>> }

\* The field maps: nil, and every map from some of the keys to lists of at
\* most MaxInserts values, the empty list among them.
GetFields ==
    UNION {[ks -> LineSeqs(MaxInserts, GetValues)] : ks \in SUBSET GetKeys}

InitGet ==
    /\ pc = "get"
    /\ \E f \in GetFields :
           tmsg = [code |-> 123, description |-> <<"F","a","k",
                 "e">>, fields |-> f]
    /\ ret = "running"
    /\ cancelled = FALSE
    /\ input = <<>>
    /\ message = NilMessage
    /\ msg = NilMessage
    /\ rerr = NoError
    /\ config = ZeroConfig
    /\ client = NoClient
    /\ resp = NoResponse
    /\ out = <<>>
    /\ sent = <<>>
    /\ nread = 0
    /\ requests = <<>>
    /\ downloads = <<>>
    /\ credTries = <<>>
    /\ nlines = 0

\* res := tmsg.Get(key); the key is kept in input and the result in out.
CallGet ==
    /\ pc = "get"
    /\ \E key \in GetKeys \cup { <<"K","e","y">> } :
           /\ input' = <<key>>
           /\ out' = <<Get(tmsg, key)>>
    /\ pc' = "got"
    /\ UNCHANGED <<ret, cancelled, message, msg, rerr, config, client, resp,
                   sent, nread, requests, downloads, credTries, nlines, tmsg>>

SpecGet == InitGet /\ [][CallGet]_vars

(***************************************************************************)
(* Method.Run.                                                             *)
(***************************************************************************)
Init ==
    /\ pc = "start"
    /\ ret = "running"
    /\ cancelled = FALSE
    /\ input = <<>>
    /\ message = NilMessage
    /\ msg = NilMessage
    /\ rerr = NoError
    /\ config = ZeroConfig
    /\ client \in {NoClient, InjectedClient}
    /\ resp = NoResponse
    /\ out = <<>>
    /\ sent = <<>>
    /\ nread = 0
    /\ requests = <<>>
    /\ downloads = <<>>
    /\ credTries = <<>>
    /\ nlines = 0
    /\ tmsg = NilMessage

\* The writer is given the messages ms, in this order, while inbound
\* message number nread is being handled.
Writes(ms) ==
    /\ out' = WriteAll(out, ms)
    /\ sent' = sent \o [i \in DOMAIN ms |-> [m |-> ms[i], by |-> nread]]

\* The peer writes the lines of one more message, or of a fragment, to the
\* input while ReadString waits for a line.
Arrive ==
    /\ pc = "ReadString"
    /\ input = <<>>
    /\ \E u \in InputMessages \cup InputFragments :
           /\ nlines + Len(u) <= MaxInputLines
           /\ input' = u
           /\ nlines' = nlines + Len(u)
    /\ UNCHANGED <<pc, ret, cancelled, message, msg, rerr, config, client,
                   resp, out, sent, nread, requests, downloads, credTries,
                   tmsg>>

\* The caller cancels ctx.
Cancel ==
    /\ pc # "done"
    /\ ~cancelled
    /\ cancelled' = TRUE
    /\ UNCHANGED <<pc, ret, input, message, msg, rerr, config, client, resp,
                   out, sent, nread, requests, downloads, credTries, nlines, tmsg>>

\* A Run that enters its loop without SendCapabilities. Claim C1 must not
\* hold of it.
SendCapabilities_Skipped ==
    /\ pc = "start"
    /\ pc' = "select"
    /\ UNCHANGED <<ret, cancelled, input, message, msg, rerr, config, client,
                   resp, out, sent, nread, requests, downloads, credTries,
                   nlines, tmsg>>

\* m.writer.SendCapabilities()
SendCapabilities ==
    /\ pc = "start"
    /\ Writes(<<new100Message>>)
    /\ pc' = "select"
    /\ UNCHANGED <<ret, cancelled, input, message, msg, rerr, config, client,
                   resp, nread, requests, downloads, credTries, nlines, tmsg>>

\* A loop of Run that does not look at ctx. Claim C19 must not hold of it.
RunSelect_Unchecked ==
    /\ pc = "select"
    /\ pc' = "ReadMessage"
    /\ UNCHANGED <<ret, cancelled, input, message, msg, rerr, config, client,
                   resp, out, sent, nread, requests, downloads, credTries,
                   nlines, tmsg>>

\* The select at the top of the loop of Run.
RunSelect ==
    /\ pc = "select"
    /\ IF cancelled
       THEN pc' = "done" /\ ret' = "nil"
       ELSE pc' = "ReadMessage" /\ ret' = ret
    /\ UNCHANGED <<cancelled, input, message, msg, rerr, config, client,
                   resp, out, sent, nread, requests, downloads, credTries,
                   nlines, tmsg>>

\* A Run that goes on to the next read after every read error but the end
\* of the input. Claim C18 must not hold of it.
RunReadError_SkipAll(err) ==
    IF err = "EOF" THEN pc' = "done" /\ ret' = "nil"
    ELSE pc' = "select" /\ ret' = ret

\* A Run that returns the end of the input as an error. Claim C17 must
\* not hold of it.
RunReadError_EOFReturned(err) ==
    IF err = errEmptyMessage THEN pc' = "select" /\ ret' = ret
    ELSE pc' = "done" /\ ret' = err

\* What Run does with the error ReadMessage returned.
RunReadError(err) ==
    IF err = errEmptyMessage THEN pc' = "select" /\ ret' = ret
    ELSE IF err = "EOF" THEN pc' = "done" /\ ret' = "nil"
    ELSE pc' = "done" /\ ret' = err

\* The select at the top of the loop of ReadMessage.
ReadSelect ==
    /\ pc = "ReadMessage"
    /\ IF cancelled
       THEN /\ rerr' = "context canceled"
            /\ msg' = NilMessage
            /\ RunReadError("context canceled")
       ELSE /\ pc' = "ReadString"
            /\ UNCHANGED <<rerr, msg, ret>>
    /\ UNCHANGED <<cancelled, input, message, config, client, resp, out,
                   sent, nread, requests, downloads, credTries, nlines, tmsg>>

\* A ReadMessage that, at the end of the input, returns the message in
\* progress as if its blank line had been read. Claim C33 must not hold of
\* it.
ReadString_FlushAtEOF ==
    /\ pc = "ReadString"
    /\ IF input = <<>> /\ message # NilMessage
       THEN /\ rerr' = NoError
            /\ msg' = message
            /\ message' = NilMessage
            /\ nread' = nread + 1
            /\ pc' = "dispatch"
            /\ UNCHANGED <<input, ret>>
       ELSE IF input = <<>>
       THEN \E e \in {"EOF", "io: read/write on closed pipe"} :
                /\ rerr' = e
                /\ msg' = NilMessage
                /\ RunReadError(e)
                /\ UNCHANGED <<input, message, nread>>
       ELSE LET r == readLine(message, Head(input))
            IN  /\ input' = Tail(input)
                /\ message' = r.message
                /\ IF ~r.returns
                   THEN /\ pc' = "ReadMessage"
                        /\ UNCHANGED <<rerr, msg, ret, nread>>
                   ELSE IF r.err # NoError
                   THEN /\ rerr' = r.err
                        /\ msg' = NilMessage
                        /\ RunReadError(r.err)
                        /\ UNCHANGED nread
                   ELSE /\ rerr' = NoError
                        /\ msg' = r.msg
                        /\ nread' = nread + 1
                        /\ pc' = "dispatch"
                        /\ UNCHANGED ret
    /\ UNCHANGED <<cancelled, config, client, resp, out, sent, requests,
                   downloads, credTries, nlines, tmsg>>

\* r.reader.ReadString('\n') returns and ReadMessage handles the line: the
\* next line of the input or, when the input has none, the error of a
\* stream that ended or was closed.
ReadString ==
    /\ pc = "ReadString"
    /\ IF input = <<>>
       THEN \E e \in {"EOF", "io: read/write on closed pipe"} :
                /\ rerr' = e
                /\ msg' = NilMessage
                /\ RunReadError(e)
                /\ UNCHANGED <<input, message, nread>>
       ELSE LET r == readLine(message, Head(input))
            IN  /\ input' = Tail(input)
                /\ message' = r.message
                /\ IF ~r.returns
                   THEN /\ pc' = "ReadMessage"
                        /\ UNCHANGED <<rerr, msg, ret, nread>>
                   ELSE IF r.err # NoError
                   THEN /\ rerr' = r.err
                        /\ msg' = NilMessage
                        /\ RunReadError(r.err)
                        /\ UNCHANGED nread
                   ELSE /\ rerr' = NoError
                        /\ msg' = r.msg
                        /\ nread' = nread + 1
                        /\ pc' = "dispatch"
                        /\ UNCHANGED ret
    /\ UNCHANGED <<cancelled, config, client, resp, out, sent, requests,
                   downloads, credTries, nlines, tmsg>>

\* A default case that writes nothing. Claim C5 must not hold of it.
Unsupported_Quiet ==
    /\ pc = "dispatch"
    /\ msg.code \notin {600, 601}
    /\ pc' = "select"
    /\ UNCHANGED <<ret, cancelled, input, message, msg, rerr, config, client,
                   resp, out, sent, nread, requests, downloads, credTries,
                   nlines, tmsg>>

\* A default case that hands the write to a goroutine: Run goes back to its
\* loop at once and the 401 is written while the next message is being
\* read. Claim C8 must not hold of it.
Unsupported_Async ==
    \/ /\ pc = "dispatch"
       /\ msg.code \notin {600, 601}
       /\ pc' = "select"
       /\ UNCHANGED <<ret, cancelled, input, message, msg, rerr, config,
                      client, resp, out, sent, nread, requests, downloads,
                      credTries, nlines, tmsg>>
    \/ /\ pc = "ReadString"
       /\ msg # NilMessage
       /\ msg.code \notin {600, 601}
       /\ \A i \in DOMAIN sent : sent[i].by # nread
       /\ Writes(<<new401Message(<<"U","n","s","u","p","p","o","r","t","e",
             "d"," ","m","e","s","s","a","g","e"," ","c","o","d","e"," ">>
                                 \o Itoa(msg.code)
                                 \o <<" ","r","e","c","e","i","v","e","d",
                                       " ","f","r","o","m"," ","a","p",
                                       "t">>)>>)
       /\ UNCHANGED <<pc, ret, cancelled, input, message, msg, rerr, config,
                      client, resp, nread, requests, downloads, credTries,
                      nlines, tmsg>>

\* A default case that reports the failure and makes Run return. Claim C20
\* must not hold of it.
Unsupported_Fatal ==
    /\ pc = "dispatch"
    /\ msg.code \notin {600, 601}
    /\ Writes(<<new401Message(<<"U","n","s","u","p","p","o","r","t","e","d",
          " ","m","e","s","s","a","g","e"," ","c","o","d","e",
          " ">> \o Itoa(msg.code)
                              \o <<" ","r","e","c","e","i","v","e","d"," ",
                                    "f","r","o","m"," ","a","p","t">>)>>)
    /\ pc' = "done"
    /\ ret' = "unsupported message code"
    /\ UNCHANGED <<cancelled, input, message, msg, rerr, config, client,
                   resp, nread, requests, downloads, credTries, nlines, tmsg>>

\* A default case that also resets the configuration. Claim C38 must not
\* hold of it.
Unsupported_ResetsConfig ==
    /\ pc = "dispatch"
    /\ msg.code \notin {600, 601}
    /\ Writes(<<new401Message(<<"U","n","s","u","p","p","o","r","t","e","d",
          " ","m","e","s","s","a","g","e"," ","c","o","d","e",
          " ">> \o Itoa(msg.code)
                              \o <<" ","r","e","c","e","i","v","e","d"," ",
                                    "f","r","o","m"," ","a","p","t">>)>>)
    /\ config' = ZeroConfig
    /\ pc' = "select"
    /\ UNCHANGED <<ret, cancelled, input, message, msg, rerr, client, resp,
                   nread, requests, downloads, credTries, nlines, tmsg>>

\* The default case of the switch of Run.
Unsupported ==
    /\ pc = "dispatch"
    /\ msg.code \notin {600, 601}
    /\ Writes(<<new401Message(<<"U","n","s","u","p","p","o","r","t","e","d",
          " ","m","e","s","s","a","g","e"," ","c","o","d","e",
          " ">> \o Itoa(msg.code)
                              \o <<" ","r","e","c","e","i","v","e","d"," ",
                                    "f","r","o","m"," ","a","p","t">>)>>)
    /\ pc' = "select"
    /\ UNCHANGED <<ret, cancelled, input, message, msg, rerr, config, client,
                   resp, nread, requests, downloads, credTries, nlines, tmsg>>

\* case 601: m.handleConfigure(msg)
HandleConfigure ==
    /\ pc = "dispatch"
    /\ msg.code = 601
    /\ LET r == handleConfigure(config, msg)
       IN  /\ config' = r.config
           /\ Writes(r.written)
    /\ pc' = "select"
    /\ UNCHANGED <<ret, cancelled, input, message, msg, rerr, client, resp,
                   nread, requests, downloads, credTries, nlines, tmsg>>

\* A validation that answers a missing URI with FailURI on the empty URI.
\* Claim C6 must not hold of it.
validateAcquire_FailURI(m) ==
    IF Get(m, <<"U","R","I">>) = <<>>
    THEN <<new400Message(<<>>, <<"n","o"," ","U","R","I"," ","p","r","o","v",
          "i","d","e","d"," ","i","n"," ","A","c","q","u","i","r","e"," ",
          "m","e","s","s","a","g","e">>)>>
    ELSE IF Get(m, <<"F","i","l","e","n","a","m","e">>) = <<>>
    THEN <<new400Message(Get(m, <<"U","R","I">>),
                         <<"n","o"," ","f","i","l","e","n","a","m","e"," ",
                               "p","r","o","v","i","d","e","d"," ","i","n",
                               " ","A","c","q","u","i","r","e"," ","m","e",
                               "s","s","a","g","e">>)>>
    ELSE <<>>

\* The validation at the head of handleAcquire: the message written when it
\* fails, nothing when it passes.
validateAcquire(m) ==
    IF Get(m, <<"U","R","I">>) = <<>>
    THEN <<new401Message(<<"n","o"," ","U","R","I"," ","p","r","o","v","i",
          "d","e","d"," ","i","n"," ","A","c","q","u","i","r","e"," ","m",
          "e","s","s","a","g","e">>)>>
    ELSE IF Get(m, <<"F","i","l","e","n","a","m","e">>) = <<>>
    THEN <<new400Message(Get(m, <<"U","R","I">>),
                         <<"n","o"," ","f","i","l","e","n","a","m","e"," ",
                               "p","r","o","v","i","d","e","d"," ","i","n",
                               " ","A","c","q","u","i","r","e"," ","m","e",
                               "s","s","a","g","e">>)>>
    ELSE <<>>

\* A switch on resp.StatusCode whose case 304 also takes every other status
\* but 200. Claim C4 must not hold of it.
respond_OthersAsNotModified(uri, filename, o) ==
    IF o.err # <<>>
    THEN [written |-> <<new400Message(uri, o.err)>>, download |-> FALSE]
    ELSE IF o.resp.status = 200
    THEN [written |-> <<new200Message(uri, o.resp.contentLength,
                                      o.resp.lastModified)>>,
          download |-> TRUE]
    ELSE [written |-> <<new201Message(uri, o.resp.contentLength,
                            o.resp.lastModified, <<>>, filename, TRUE)>>,
          download |-> FALSE]

\* A switch on resp.StatusCode whose case 200 also takes 304. Claim C3
\* must not hold of it.
respond_NotModifiedAsOK(uri, filename, o) ==
    IF o.err # <<>>
    THEN [written |-> <<new400Message(uri, o.err)>>, download |-> FALSE]
    ELSE IF o.resp.status \in {200, 304}
    THEN [written |-> <<new200Message(uri, o.resp.contentLength,
                                      o.resp.lastModified)>>,
          download |-> TRUE]
    ELSE [written |-> <<new400Message(uri, <<"e","r","r","o","r"," ","d","o",
          "w","n","l","o","a","d","i","n","g",":"," ","c","o","d","e"," ">>
                                           \o Itoa(o.resp.status))>>,
          download |-> FALSE]

\* handleAcquire from the return of m.client.Do to the call of
\* m.dl.download or to its end: the messages written, the debug log aside,
\* and whether the download follows.
respond(uri, filename, o) ==
    IF o.err # <<>>
    THEN [written |-> <<new400Message(uri, o.err)>>, download |-> FALSE]
    ELSE IF o.resp.status = 200
    THEN [written |-> <<new200Message(uri, o.resp.contentLength,
                                      o.resp.lastModified)>>,
          download |-> TRUE]
    ELSE IF o.resp.status = 304
    THEN [written |-> <<new201Message(uri, o.resp.contentLength,
                            o.resp.lastModified, <<>>, filename, TRUE)>>,
          download |-> FALSE]
    ELSE [written |-> <<new400Message(uri, <<"e","r","r","o","r"," ","d","o",
          "w","n","l","o","a","d","i","n","g",":"," ","c","o","d","e"," ">>
                                           \o Itoa(o.resp.status))>>,
          download |-> FALSE]

\* An end of handleAcquire that reports the download before it checks its
\* error and leaves the hash out. Claim C2 must not hold of it.
finish_NoHash(uri, filename, r, d) ==
    <<new201Message(uri, r.contentLength, r.lastModified, <<>>, filename,
                    FALSE)>>

\* An end of handleAcquire that reports the failed download and goes on to
\* URIDone. Claim C29 must not hold of it.
finish_DoneAfterFailure(uri, filename, r, d) ==
    (IF d.err # <<>> THEN <<new400Message(uri, d.err)>> ELSE <<>>)
    \o <<new201Message(uri, r.contentLength, r.lastModified, d.md5Hash,
                       filename, FALSE)>>

\* handleAcquire after m.dl.download returned d: the message written.
finish(uri, filename, r, d) ==
    IF d.err # <<>>
    THEN <<new400Message(uri, d.err)>>
    ELSE <<new201Message(uri, r.contentLength, r.lastModified, d.md5Hash,
                         filename, FALSE)>>

\* case 600: m.handleAcquire(ctx, msg), up to the call of m.client.Do.
HandleAcquire ==
    /\ pc = "dispatch"
    /\ msg.code = 600
    /\ resp' = NoResponse
    /\ LET uri == Get(msg, <<"U","R","I">>)
           req == newRequest(uri, Get(msg, <<"L","a","s","t","-","M","o","d",
                 "i","f","i","e","d">>))
       IN  IF validateAcquire(msg) # <<>>
           THEN /\ Writes(validateAcquire(msg))
                /\ pc' = "select"
                /\ UNCHANGED <<client, requests, credTries>>
           ELSE \E outcome \in CredOutcomes(config, client) :
               LET ic == initClient(config, client, outcome)
               IN  /\ credTries' =
                          IF client = NoClient
                          THEN Append(credTries,
                                      [source |-> credSource(config),
                                       outcome |-> outcome, by |-> nread])
                          ELSE credTries
                   /\ client' = ic.client
                   /\ IF ic.err # <<>>
                      THEN /\ Writes(<<new400Message(uri, ic.err)>>)
                           /\ pc' = "select"
                           /\ UNCHANGED requests
                      ELSE IF ~URLParses(req.url)
                      THEN /\ pc' = "select"
                           /\ UNCHANGED <<out, sent, requests>>
                      ELSE /\ Writes(IF config.debug
                                     THEN <<new101Message(DumpRequest(req))>>
                                     ELSE <<>>)
                           /\ requests' =
                                  Append(requests,
                                         [url |-> req.url,
                                          ifModifiedSince |->
                                              req.ifModifiedSince,
                                          client |-> ic.client,
                                          by |-> nread])
                           /\ pc' = "Do"
    /\ UNCHANGED <<ret, cancelled, input, message, msg, rerr, config,
                   nread, downloads, nlines, tmsg>>

\* m.client.Do(req) returns and handleAcquire goes on, up to the call of
\* m.dl.download for a 200 and to its end otherwise.
ClientDo ==
    /\ pc = "Do"
    /\ \E o \in HTTPOutcomes :
        LET r   == respond(Get(msg, <<"U","R","I">>), Get(msg, <<"F","i","l",
              "e","n","a","m","e">>), o)
            log == IF config.debug /\ o.resp # NoResponse
                   THEN <<new101Message(DumpResponse(o.resp))>>
                   ELSE <<>>
        IN  /\ Writes(log \o r.written)
            /\ resp' = o.resp
            /\ pc' = IF r.download THEN "download" ELSE "select"
    /\ UNCHANGED <<ret, cancelled, input, message, msg, rerr, config, client,
                   nread, requests, downloads, credTries, nlines, tmsg>>

\* m.dl.download(resp.Body, filename) returns and handleAcquire ends.
Download ==
    /\ pc = "download"
    /\ \E d \in DownloadOutcomes :
        /\ downloads' = Append(downloads,
                               [filename |-> Get(msg, <<"F","i","l","e","n",
                                     "a","m","e">>),
                                err |-> d.err, md5Hash |-> d.md5Hash,
                                by |-> nread])
        /\ Writes(finish(Get(msg, <<"U","R","I">>), Get(msg, <<"F","i","l",
              "e","n","a","m","e">>), resp, d))
    /\ pc' = "select"
    /\ UNCHANGED <<ret, cancelled, input, message, msg, rerr, config, client,
                   resp, nread, requests, credTries, nlines, tmsg>>

Next ==
    \/ Arrive
    \/ Cancel
    \/ SendCapabilities
    \/ RunSelect
    \/ ReadSelect
    \/ ReadString
    \/ Unsupported
    \/ HandleConfigure
    \/ HandleAcquire
    \/ ClientDo
    \/ Download

Spec == Init /\ [][Next]_vars

(***************************************************************************)
(* Acquire harness: handleAcquire is called on a Method with an injected   *)
(* client for 600 messages built in memory.                                *)
(***************************************************************************)
\* The number of parts a URI is made of.
MaxURIParts == 3

\* "ar+https", "https", "://h/", "x"
URIParts == { <<"a","r","+","h","t","t","p","s">>, <<"h","t","t","p",
      "s">>, <<":","/","/","h","/">>, <<"x">> }

\* The parts ps one after the other.
RECURSIVE Concat(_)
Concat(ps) == IF ps = <<>> THEN <<>> ELSE ps[1] \o Concat(Tail(ps))

\* The URIs of at most MaxURIParts parts, the empty one among them.
AcquireURIs == {Concat(ps) : ps \in LineSeqs(MaxURIParts, URIParts)}

\* The value lists of the Last-Modified field: one value, two values, an
\* empty first value, and no value.
LastModifiedLists ==
    { << <<"S","u","n">> >>, << <<"S","u","n">>, <<"M","o",
          "n">> >>, << <<>>, <<"M","o","n">> >>, <<>> }

\* The 600 messages: a URI, a Filename, and a Last-Modified field or none.
AcquireMessages ==
    LET u == <<"U","R","I">>
        f == <<"F","i","l","e","n","a","m","e">>
        l == <<"L","a","s","t","-","M","o","d","i","f","i","e","d">>
        d == <<"U","R","I"," ","A","c","q","u","i","r","e">>
    IN  {[code |-> 600, description |-> d,
          fields |-> SetField(FieldsOf(u, <<uri>>), f, << <<"/","f">> >>)] :
            uri \in AcquireURIs}
        \cup {[code |-> 600, description |-> d,
               fields |-> SetField(SetField(FieldsOf(u, <<uri>>), f,
                                            << <<"/","f">> >>), l, lm)] :
                uri \in AcquireURIs, lm \in LastModifiedLists}

InitAcquire ==
    /\ pc = "dispatch"
    /\ msg \in AcquireMessages
    /\ nread = 1
    /\ client = InjectedClient
    /\ config = ZeroConfig
    /\ ret = "running"
    /\ cancelled = FALSE
    /\ input = <<>>
    /\ message = NilMessage
    /\ rerr = NoError
    /\ resp = NoResponse
    /\ out = <<>>
    /\ sent = <<>>
    /\ requests = <<>>
    /\ downloads = <<>>
    /\ credTries = <<>>
    /\ nlines = 0
    /\ tmsg = NilMessage

NextAcquire == HandleAcquire \/ ClientDo \/ Download

SpecAcquire == InitAcquire /\ [][NextAcquire]_vars

(***************************************************************************)
(* Properties.                                                             *)
(***************************************************************************)
\* What the writer was given while inbound message number i was handled.
SentBy(i) == SelectSeq(sent, LAMBDA e : e.by = i)

\* The same without the 101 Log messages.
Replies(i) == SelectSeq(sent, LAMBDA e : e.by = i /\ e.m.code # 101)

\* Run is inside the handling of inbound message number nread.
Handling == pc \in {"dispatch", "Do", "download"}

\* Inbound message number nread, held in msg, has been handled to the end
\* and ReadMessage has not returned since.
Handled == msg # NilMessage /\ ~Handling

\* msg is a 600 URI Acquire with a URI and a Filename.
AcquireWithBoth ==
    /\ msg.code = 600
    /\ Get(msg, <<"U","R","I">>) # <<>>
    /\ Get(msg, <<"F","i","l","e","n","a","m","e">>) # <<>>

\* The download made for inbound message number nread returned no error.
DownloadSucceeded ==
    /\ downloads # <<>>
    /\ downloads[Len(downloads)].by = nread
    /\ downloads[Len(downloads)].err = <<>>

\* "100 Capabilities\nSend-Config: true\nVersion: 1.0\n\n"
CapabilitiesBytes ==
    <<"1","0","0"," ","C","a","p","a","b","i","l","i","t","i","e",
          "s">> \o <<"\n">> \o <<"S","e","n","d","-","C","o","n","f","i","g",
          ":"," ","t","r","u","e">> \o <<"\n">>
    \o <<"V","e","r","s","i","o","n",":"," ","1",".","0">> \o <<"\n", "\n">>

\* C1: in every run of Run the first outbound message is 100 Capabilities
\* with Send-Config: true and Version: 1.0; nothing of the input has been
\* read when it is written, and no later outbound message is a 100
\* Capabilities.
C1_CapabilitiesFirstAndOnce ==
    /\ pc = "start" =>
           /\ out = <<>> /\ sent = <<>>
           /\ nread = 0 /\ nlines = 0 /\ input = <<>>
           /\ message = NilMessage
    /\ pc # "start" =>
           /\ Len(out) >= 1
           /\ out[1] = CapabilitiesBytes
           /\ sent[1].m.code = 100
           /\ sent[1].by = 0
           /\ Get(sent[1].m, <<"S","e","n","d","-","C","o","n","f","i",
                 "g">>) = <<"t","r","u","e">>
           /\ Get(sent[1].m, <<"V","e","r","s","i","o","n">>) = <<"1",".",
                 "0">>
           /\ \A i \in 2..Len(out) :
                  /\ sent[i].m.code # 100
                  /\ SubSeq(out[i], 1, 4) # <<"1","0","0"," ">>

\* Run has ended after two inbound messages and at least two replies.
C1_Witness ==
    /\ pc = "done"
    /\ nread >= 2
    /\ Len(out) >= 3
    /\ out[1] = CapabilitiesBytes

\* What C2 says is emitted for inbound message number nread: a 200 URI
\* Start with the Content-Length as Size, then a 201 URI Done with the URI,
\* the Filename, the hash of the downloader and no IMS-Hit.
C2_StartThenDone ==
    LET r == Replies(nread)
    IN  /\ Len(r) = 2
        /\ r[1].m.code = 200
        /\ Get(r[1].m, <<"U","R","I">>) = Get(msg, <<"U","R","I">>)
        /\ Get(r[1].m, <<"S","i","z","e">>) = resp.contentLength
        /\ r[2].m.code = 201
        /\ Get(r[2].m, <<"U","R","I">>) = Get(msg, <<"U","R","I">>)
        /\ Get(r[2].m, <<"F","i","l","e","n","a","m","e">>) = Get(msg, <<"F",
              "i","l","e","n","a","m","e">>)
        /\ downloads # <<>>
        /\ <<"M","D","5","-","H","a","s","h">> \in DOMAIN r[2].m.fields
        /\ Get(r[2].m, <<"M","D","5","-","H","a","s",
              "h">>) = downloads[Len(downloads)].md5Hash
        /\ <<"I","M","S","-","H","i","t">> \notin DOMAIN r[2].m.fields

\* C2 as stated: every 600 request with URI and Filename whose response has
\* status 200 is answered by a 200 URI Start and then a 201 URI Done.
C2_AsStated ==
    (Handled /\ AcquireWithBoth /\ resp.status = 200) => C2_StartThenDone

\* C2: for a 600 request with non-empty URI and Filename whose HTTP
\* response has status 200 and whose download returns no error, Run emits,
\* in this order, one 200 URI Start whose Size is the Content-Length of the
\* response, then one 201 URI Done with the same URI, the requested
\* Filename, the hash returned by the downloader and no IMS-Hit field.
C2_StartThenDoneWhenDownloaded ==
    (Handled /\ AcquireWithBoth /\ resp.status = 200 /\ DownloadSucceeded)
        => C2_StartThenDone

\* A 200 response with Content-Length 200 was downloaded and reported.
C2_Witness ==
    /\ Handled /\ AcquireWithBoth
    /\ resp.status = 200
    /\ resp.contentLength = <<"2","0","0">>
    /\ DownloadSucceeded
    /\ Len(Replies(nread)) = 2

\* The one message m is a 201 URI Done for msg with IMS-Hit: true and
\* without Size and MD5-Hash.
C3_NotModifiedDone(m) ==
    /\ m.code = 201
    /\ Get(m, <<"U","R","I">>) = Get(msg, <<"U","R","I">>)
    /\ Get(m, <<"I","M","S","-","H","i","t">>) = <<"t","r","u","e">>
    /\ <<"S","i","z","e">> \notin DOMAIN m.fields
    /\ <<"M","D","5","-","H","a","s","h">> \notin DOMAIN m.fields

\* The downloader was not invoked for inbound message number nread.
C3_NoDownload == \A i \in DOMAIN downloads : downloads[i].by # nread

\* C3 as stated: a 304 response makes Run emit only a 201 URI Done, and
\* nothing else at all.
C3_AsStated ==
    (Handled /\ AcquireWithBoth /\ resp.status = 304) =>
        /\ Len(SentBy(nread)) = 1
        /\ C3_NotModifiedDone(SentBy(nread)[1].m)
        /\ C3_NoDownload

\* C3: for a 600 request with non-empty URI and Filename whose HTTP
\* response has status 304, Run emits, besides the 101 Log messages of an
\* enabled debug option, only a 201 URI Done with IMS-Hit: true and
\* without Size or MD5-Hash; it emits no 200 URI Start and the downloader
\* is never invoked.
C3_NotModified ==
    (Handled /\ AcquireWithBoth /\ resp.status = 304) =>
        /\ Len(Replies(nread)) = 1
        /\ C3_NotModifiedDone(Replies(nread)[1].m)
        /\ \A i \in DOMAIN sent : sent[i].by = nread => sent[i].m.code # 200
        /\ C3_NoDownload

\* A 304 response was reported with debugging enabled, between two Logs.
C3_Witness ==
    /\ Handled /\ AcquireWithBoth
    /\ resp.status = 304
    /\ config.debug
    /\ Len(SentBy(nread)) = 3
    /\ Len(Replies(nread)) = 1

\* C4: for a 600 request with non-empty URI and Filename whose HTTP
\* response has a status other than 200 and 304, Run emits exactly one 400
\* URI Failure, with the requested URI and a non-empty Message that cites
\* the status in decimal, and neither a 200 URI Start nor a 201 URI Done.
C4_OtherStatusFails ==
    (Handled /\ AcquireWithBoth /\ resp.status \notin {0, 200, 304}) =>
        LET r == Replies(nread)
        IN  /\ Len(r) = 1
            /\ r[1].m.code = 400
            /\ Get(r[1].m, <<"U","R","I">>) = Get(msg, <<"U","R","I">>)
            /\ Get(r[1].m, <<"M","e","s","s","a","g","e">>) # <<>>
            /\ Contains(Get(r[1].m, <<"M","e","s","s","a","g",
                  "e">>), Itoa(resp.status))
            /\ \A i \in DOMAIN sent :
                   sent[i].by = nread => sent[i].m.code \notin {200, 201}

\* A 404 response was answered.
C4_Witness ==
    /\ Handled /\ AcquireWithBoth
    /\ resp.status = 404
    /\ Replies(nread) # <<>>
    /\ Contains(out[Len(out)], <<"4","0","4">>)

\* C5: for every inbound message whose code is neither 600 nor 601, Run
\* emits exactly one 401 General Failure with a non-empty Message citing
\* that code; the step changes no configuration, resolves no credential,
\* issues no HTTP request, and takes Run back to the head of its loop
\* without ending it.
C5_UnsupportedCode ==
    /\ [](Handled /\ msg.code \notin {600, 601} =>
             LET r == SentBy(nread)
             IN  /\ Len(r) = 1
                 /\ r[1].m.code = 401
                 /\ Get(r[1].m, <<"M","e","s","s","a","g","e">>) # <<>>
                 /\ Contains(Get(r[1].m, <<"M","e","s","s","a","g",
                       "e">>), Itoa(msg.code)))
    /\ [][(pc = "dispatch" /\ msg.code \notin {600, 601}) =>
             /\ config' = config
             /\ client' = client
             /\ requests' = requests
             /\ credTries' = credTries
             /\ downloads' = downloads
             /\ ret' = ret
             /\ pc' # pc => (pc' = "select" /\ Len(sent') = Len(sent) + 1)]_vars

\* After a 700 message was answered with a 401 citing 700, Run has read the
\* next message.
C5_Witness ==
    /\ pc = "dispatch"
    /\ nread = 2
    /\ Len(SentBy(1)) = 1
    /\ SentBy(1)[1].m.code = 401
    /\ Contains(Get(SentBy(1)[1].m, <<"M","e","s","s","a","g","e">>), <<"7",
          "0","0">>)

\* C6: a 600 message without a URI yields exactly one 401 General Failure
\* and no 400 URI Failure; a 600 message with a URI and without a Filename
\* yields exactly one 400 URI Failure for that URI; in both cases no
\* credential is resolved and no HTTP request is issued.
C6_AcquireValidation ==
    (Handled /\ msg.code = 600
        /\ (Get(msg, <<"U","R","I">>) = <<>> \/ Get(msg, <<"F","i","l","e",
              "n","a","m","e">>) = <<>>)) =>
        LET r == SentBy(nread)
        IN  /\ Len(r) = 1
            /\ IF Get(msg, <<"U","R","I">>) = <<>>
               THEN r[1].m.code = 401
               ELSE /\ r[1].m.code = 400
                    /\ Get(r[1].m, <<"U","R","I">>) = Get(msg, <<"U","R",
                          "I">>)
            /\ \A i \in DOMAIN credTries : credTries[i].by # nread
            /\ \A i \in DOMAIN requests : requests[i].by # nread

\* A 600 message with a URI and no Filename was answered while no client
\* had been built.
C6_Witness ==
    /\ Handled /\ msg.code = 600
    /\ Get(msg, <<"U","R","I">>) # <<>>
    /\ Get(msg, <<"F","i","l","e","n","a","m","e">>) = <<>>
    /\ client = NoClient
    /\ Len(SentBy(nread)) = 1

\* C7: in the outbound stream, a 200 URI Start of an acquisition comes
\* before the 201 URI Done of the same acquisition and never after it; the
\* stream holds the messages in the order in which the handlers gave them to
\* the writer, and what has been written is never moved or changed.
C7_OutboundOrder ==
    /\ [](\A i, j \in DOMAIN sent :
              (sent[i].by = sent[j].by /\ sent[i].m.code = 200
                  /\ sent[j].m.code = 201) => i < j)
    /\ [](/\ Len(out) = Len(sent)
          /\ \A i \in DOMAIN out :
                 SubSeq(out[i], 1, 4) = Itoa(sent[i].m.code) \o <<" ">>)
    /\ [][/\ Len(out') >= Len(out)
          /\ SubSeq(out', 1, Len(out)) = out
          /\ Len(sent') >= Len(sent)
          /\ SubSeq(sent', 1, Len(sent)) = sent
          /\ \A i \in (Len(out) + 1)..Len(out') :
                 out'[i] = String(sent'[i].m)]_vars

\* An acquisition was answered by a 200 URI Start, then a 201 URI Done,
\* after an earlier inbound message had been answered.
C7_Witness ==
    /\ Len(out) >= 4
    /\ nread = 2
    /\ Len(Replies(2)) = 2
    /\ Replies(2)[1].m.code = 200
    /\ Replies(2)[2].m.code = 201
    /\ Len(SentBy(1)) >= 1

\* C8: Run handles inbound messages one at a time: a message is written
\* only while an inbound message is being handled (or at the start), and
\* belongs to that message; the reader makes progress only while no message
\* is being handled, and writes nothing; so the replies appear in the order
\* of the requests and never interleave.
C8_OneAtATime ==
    /\ [](\A i, j \in DOMAIN sent : i < j => sent[i].by <= sent[j].by)
    /\ [](\A i \in DOMAIN sent : sent[i].by <= nread)
    /\ [][/\ sent' # sent =>
                 /\ pc = "start" \/ Handling
                 /\ nread' = nread
                 /\ input' = input /\ message' = message
                 /\ \A i \in (Len(sent) + 1)..Len(sent') :
                        sent'[i].by = nread
          /\ (input' # input \/ message' # message \/ nread' # nread
                \/ rerr' # rerr) =>
                 /\ pc \in {"ReadMessage", "ReadString"}
                 /\ sent' = sent /\ out' = out]_vars

\* Two inbound messages have been answered, each with its own reply, and
\* the third has been read.
C8_Witness ==
    /\ nread = 3
    /\ pc = "dispatch"
    /\ Len(SentBy(1)) >= 1
    /\ Len(SentBy(2)) >= 1
    /\ sent[Len(sent)].by = 2

\* s is not empty, has no white space at either end and no "\n" inside.
PlainText(s) ==
    /\ s # <<>>
    /\ TrimSpace(s) = s
    /\ "\n" \notin Range(s)

\* The Messages the line format can carry: description, names and values
\* are plain text, no name holds a colon and every name has a value.
WellFormed(m) ==
    /\ PlainText(m.description)
    /\ \A k \in DOMAIN m.fields :
           /\ PlainText(k)
           /\ ":" \notin Range(k)
           /\ m.fields[k] # <<>>
           /\ \A j \in DOMAIN m.fields[k] : PlainText(m.fields[k][j])

\* ReadMessage returned the Message that was written.
C9_SameMessage ==
    /\ rerr = NoError
    /\ msg # NilMessage
    /\ msg.code = tmsg.code
    /\ msg.description = tmsg.description
    /\ DOMAIN msg.fields = DOMAIN tmsg.fields
    /\ \A k \in DOMAIN tmsg.fields : msg.fields[k] = tmsg.fields[k]

\* C9 as stated: for any Message with a non-empty field map, ReadMessage on
\* the bytes WriteMessage wrote returns a Message with the same code,
\* description and fields.
C9_AsStated ==
    (pc = "returned" /\ DOMAIN tmsg.fields # {}) => C9_SameMessage

\* C9: for any Message with a non-empty field map whose description, names
\* and values are non-empty, carry no white space at either end and no
\* newline, whose names carry no colon and each hold at least one value,
\* ReadMessage on the bytes WriteMessage wrote returns a Message with the
\* same code, the same description and the same names, each with the same
\* ordered list of values.
C9_RoundTrip ==
    (pc = "returned" /\ DOMAIN tmsg.fields # {} /\ WellFormed(tmsg))
        => C9_SameMessage

\* A Message with two names, one of them with two values, came back.
C9_Witness ==
    /\ pc = "returned"
    /\ WellFormed(tmsg)
    /\ Cardinality(DOMAIN tmsg.fields) = 2
    /\ \E k \in DOMAIN tmsg.fields : Len(tmsg.fields[k]) = 2
    /\ msg = tmsg

\* The header line of tmsg.
C10_Header == Itoa(tmsg.code) \o <<" ">> \o tmsg.description

\* The field values of tmsg: a name and an index into its list.
C10_Entries ==
    UNION {{<<k, j>> : j \in DOMAIN tmsg.fields[k]} : k \in DOMAIN tmsg.fields}

\* The line of a field value.
C10_Line(e) ==
    e[1] \o <<":", " ">> \o ReplaceNewlines(tmsg.fields[e[1]][e[2]])

\* Entry d comes before entry e: by name in byte order, then by index.
C10_Before(d, e) ==
    \/ StrLess(d[1], e[1])
    \/ d[1] = e[1] /\ d[2] < e[2]

\* The number of bytes of the lines of the entries in S, "\n" included.
RECURSIVE C10_Bytes(_)
C10_Bytes(S) ==
    IF S = {} THEN 0
    ELSE LET e == CHOOSE x \in S : TRUE
         IN  Len(C10_Line(e)) + 1 + C10_Bytes(S \ {e})

\* Where the line of entry e starts in the serialization, counted from 0.
C10_Offset(e) ==
    Len(C10_Header) + 1 + C10_Bytes({d \in C10_Entries : C10_Before(d, e)})

UpperCase == Range(SubSeq(ASCII, 34, 59))

LowerCase == Range(SubSeq(ASCII, 65, 90))

\* C10: the serialization of a Message is its header line
\* "<code> <description>", then one line per field value, the names in
\* ascending byte order (a name that starts with an upper-case letter
\* before one that starts with a lower-case letter), the values of a name
\* in insertion order, then one blank line; a name with an empty list
\* gives no line; the bytes depend on the content of the Message alone,
\* not on the order in which the map delivers its keys.
C10_Deterministic ==
    pc # "write" =>
        LET bytes == out[1]
        IN  /\ Len(bytes) = Len(C10_Header) + 1 + C10_Bytes(C10_Entries) + 1
            /\ SubSeq(bytes, 1, Len(C10_Header) + 1) = C10_Header \o <<"\n">>
            /\ \A e \in C10_Entries :
                   SubSeq(bytes, C10_Offset(e) + 1,
                          C10_Offset(e) + Len(C10_Line(e)) + 1)
                       = C10_Line(e) \o <<"\n">>
            /\ bytes[Len(bytes)] = "\n"
            /\ \A d, e \in C10_Entries :
                   (d[1] # <<>> /\ e[1] # <<>> /\ d[1][1] \in UpperCase
                       /\ e[1][1] \in LowerCase)
                       => C10_Offset(d) < C10_Offset(e)
            /\ \A d, e \in C10_Entries :
                   (d[1] = e[1] /\ d[2] < e[2])
                       => C10_Offset(d) < C10_Offset(e)

\* A Message with the names "Z" and "a", one of them with two values, was
\* written.
C10_Witness ==
    /\ pc # "write"
    /\ DOMAIN tmsg.fields = {<<"Z">>, <<"a">>}
    /\ \E k \in DOMAIN tmsg.fields : Len(tmsg.fields[k]) = 2
    /\ \A k \in DOMAIN tmsg.fields : Len(tmsg.fields[k]) >= 1

\* s holds no "\n".
NoNewline(s) == "\n" \notin Range(s)

\* The length of value val once every "\n" and every "\r\n" in it has become
\* the two characters backslash and n.
C11_EscapedLen(val) ==
    Len(val) + Cardinality(Occurrences(val, <<"\n">>))
        - Cardinality(Occurrences(val, <<"\r", "\n">>))

\* The bytes of the field lines of tmsg when every value is escaped.
RECURSIVE C11_FieldBytes(_)
C11_FieldBytes(S) ==
    IF S = {} THEN 0
    ELSE LET e == CHOOSE x \in S : TRUE
         IN  Len(e[1]) + 2 + C11_EscapedLen(tmsg.fields[e[1]][e[2]]) + 1
             + C11_FieldBytes(S \ {e})

\* The bytes written for tmsg are a header line, one line per field value
\* with the newlines of the value escaped, and a blank line, which is the
\* only blank line; a ReadMessage that returns a message from them has
\* consumed them all.
C11_Framed ==
    LET bytes == out[1]
        ls    == Lines(bytes)
    IN  /\ bytes[Len(bytes)] = "\n"
        /\ Len(ls) = Cardinality(C10_Entries) + 2
        /\ Len(bytes) = Len(C10_Header) + 1 + C11_FieldBytes(C10_Entries) + 1
        /\ \A i \in DOMAIN ls : (TrimSpace(ls[i]) = <<>>) <=> (i = Len(ls))
        /\ (pc = "returned" /\ rerr = NoError) =>
               /\ msg # NilMessage
               /\ input = <<>>

\* C11 as stated: for every Message the serialized bytes hold a blank line
\* only as the final terminator and a reader sees one message with no
\* stray lines after it.
C11_AsStated == pc # "write" => C11_Framed

\* C11: for every Message whose description and field names hold no
\* newline, each newline sequence in a field value is replaced by the two
\* characters backslash and n on output, so the serialized bytes hold a
\* blank line only as the final terminator and a reader that gets a
\* message from them has consumed them all: no message ends early with
\* stray lines after it.
C11_NewlinesEscaped ==
    (/\ pc # "write"
     /\ NoNewline(tmsg.description)
     /\ \A k \in DOMAIN tmsg.fields : NoNewline(k)) => C11_Framed

\* A Message with a value that holds "\r\n\n" was written and read back as
\* one message.
C11_Witness ==
    /\ pc = "returned"
    /\ rerr = NoError
    /\ NoNewline(tmsg.description)
    /\ \E k \in DOMAIN tmsg.fields :
           /\ NoNewline(k)
           /\ \E j \in DOMAIN tmsg.fields[k] :
                  Contains(tmsg.fields[k][j], <<"\r", "\n", "\n">>)
    /\ input = <<>>

\* The name of a field line: what stands before its first colon, trimmed.
LineName(line) ==
    TrimSpace(SubSeq(line, 1, Min(Occurrences(line, <<":">>)) - 1))

\* The value of a field line: what stands after its first colon, trimmed.
LineValue(line) ==
    TrimSpace(SubSeq(line, Min(Occurrences(line, <<":">>)) + 1, Len(line)))

\* The values of the lines of ls that carry the name k, in their order.
RECURSIVE ValuesNamed(_, _)
ValuesNamed(ls, k) ==
    IF ls = <<>> THEN <<>>
    ELSE (IF LineName(ls[1]) = k THEN <<LineValue(ls[1])>> ELSE <<>>)
         \o ValuesNamed(Tail(ls), k)

\* The field lines in the buffer: all but the header and the blank line.
C12_FieldLines == SubSeq(Lines(out[1]), 2, Len(Lines(out[1])) - 1)

\* C12: ReadMessage assembles one message from a header line, zero or more
\* field lines and one blank line: it holds the code and the description
\* of the header and, under each name, one value per line that carries the
\* name, in the order of the lines, whatever stands in between and also
\* when a value repeats.
C12_FieldsAccumulate ==
    /\ (pc = "returned" /\ rerr = NoError) =>
           /\ input = <<>>
           /\ msg # NilMessage
           /\ LET h == TrimSpace(Lines(out[1])[1])
              IN  /\ SubSeq(h, 1, Len(Itoa(msg.code)) + 1)
                         = Itoa(msg.code) \o <<" ">>
                  /\ SubSeq(h, Len(h) - Len(msg.description) + 1, Len(h))
                         = msg.description
           /\ DOMAIN msg.fields
                  = {LineName(C12_FieldLines[i]) : i \in DOMAIN C12_FieldLines}
           /\ \A k \in DOMAIN msg.fields :
                  msg.fields[k] = ValuesNamed(C12_FieldLines, k)
    /\ (/\ pc = "returned"
        /\ " " \in Range(TrimSpace(Lines(out[1])[1]))
        /\ \A i \in DOMAIN C12_FieldLines : ":" \in Range(C12_FieldLines[i]))
           => rerr = NoError

\* "Field1: val1", "Field2: val2" and " Field1 :val1" were read into
\* Field1 = [val1, val1] and Field2 = [val2].
C12_Witness ==
    /\ pc = "returned"
    /\ rerr = NoError
    /\ C12_FieldLines = <<<<"F","i","e","l","d","1",":"," ","v","a","l",
          "1">>, <<"F","i","e","l","d","2",":"," ","v","a","l","2">>, <<" ",
          "F","i","e","l","d","1"," ",":","v","a","l","1">>>>
    /\ msg.fields[<<"F","i","e","l","d","1">>] = <<<<"v","a","l",
          "1">>, <<"v","a","l","1">>>>
    /\ msg.fields[<<"F","i","e","l","d","2">>] = <<<<"v","a","l","2">>>>

\* tok is an optional sign and one or more decimal digits.
IsInteger(tok) ==
    LET digits == IF tok # <<>> /\ tok[1] \in {"+", "-"} THEN Tail(tok)
                  ELSE tok
    IN  /\ digits # <<>>
        /\ \A i \in DOMAIN digits : digits[i] \in Range(Digits)

\* The first token of a line: what stands before its first space, once the
\* white space around the line is removed.
FirstToken(line) ==
    LET t  == TrimSpace(line)
        sp == Occurrences(t, <<" ">>)
    IN  IF sp = {} THEN t ELSE SubSeq(t, 1, Min(sp) - 1)

\* C13: parseHeader returns an error, and leaves the code and the
\* description of the message in progress as they were, for a line whose
\* first token is not an integer, for a line without a space, for an empty
\* line, and when the message in progress already has a code or a
\* description.
C13_ParseHeaderFails ==
    (/\ pc = "parseHeader returned"
     /\ \/ ~IsInteger(FirstToken(input[1]))
        \/ " " \notin Range(input[1])
        \/ input[1] = <<>>
        \/ tmsg.code # 0
        \/ tmsg.description # <<>>)
        => /\ rerr # NoError
           /\ message.code = tmsg.code
           /\ message.description = tmsg.description
           /\ message = tmsg

\* parseHeader refused "600 URI Acquire" for a message that had the code
\* 123 already.
C13_Witness ==
    /\ pc = "parseHeader returned"
    /\ input[1] = <<"6","0","0"," ","U","R","I"," ","A","c","q","u","i","r",
          "e">>
    /\ tmsg.code = 123
    /\ rerr # NoError
    /\ message.code = 123

\* C14: parseField returns an error, and leaves the fields of the message
\* in progress as they were, for a line without a colon, for an empty line,
\* and when the name or the value is empty once trimmed.
C14_ParseFieldFails ==
    (/\ pc = "parseField returned"
     /\ \/ ":" \notin Range(input[1])
        \/ input[1] = <<>>
        \/ LineName(input[1]) = <<>>
        \/ LineValue(input[1]) = <<>>)
        => /\ rerr # NoError
           /\ DOMAIN message.fields = DOMAIN tmsg.fields
           /\ \A k \in DOMAIN tmsg.fields : message.fields[k] = tmsg.fields[k]

\* parseField refused "Field1:  ", whose value is empty once trimmed, for a
\* message that had a value under Field1 already.
C14_Witness ==
    /\ pc = "parseField returned"
    /\ input[1] = <<"F","i","e","l","d","1",":"," "," ">>
    /\ tmsg.fields # NoFields
    /\ rerr # NoError
    /\ message.fields = tmsg.fields

\* The Config-Item values of the Configuration message handled.
ConfigItemsOf(m) ==
    IF <<"C","o","n","f","i","g","-","I","t","e",
          "m">> \in DOMAIN m.fields THEN m.fields[<<"C","o","n","f","i","g",
          "-","I","t","e","m">>]
    ELSE <<>>

\* The key of a Config-Item value: what stands before its first "=".
ItemKey(item) == SplitN2(item, "=")[1]

\* The value of a Config-Item value once trimmed, empty when it has no "=".
ItemValue(item) ==
    LET parts == SplitN2(item, "=")
    IN  IF Len(parts) = 2 THEN TrimSpace(parts[2]) ELSE <<>>

\* The items that stand before the first item without "=": the ones the
\* message sets.
ItemsSet(items) ==
    LET bad == {i \in DOMAIN items : "=" \notin Range(items[i])}
    IN  IF bad = {} THEN items ELSE SubSeq(items, 1, Min(bad) - 1)

\* The items of a list that have a given key.
ItemsKeyed(items, key) == SelectSeq(items, LAMBDA it : ItemKey(it) = key)

\* C15: after handleConfigure has handled one Configuration message whose
\* Config-Item values set Acquire::gar::Service-Account-JSON, to non-empty
\* paths only, and Acquire::gar::Service-Account-Email, in either order,
\* the configuration has the JSON path set and the email empty.
C15_JSONOverEmail ==
    LET set == ItemsSet(ConfigItemsOf(msg))
        json == ItemsKeyed(set, <<"A","c","q","u","i","r","e",":",":","g",
              "a","r",":",":","S","e","r","v","i","c","e","-","A","c","c",
              "o","u","n","t","-","J","S","O","N">>)
    IN  (/\ pc = "configured"
         /\ json # <<>>
         /\ \A i \in DOMAIN json : ItemValue(json[i]) # <<>>
         /\ ItemsKeyed(set, <<"A","c","q","u","i","r","e",":",":","g","a",
               "r",":",":","S","e","r","v","i","c","e","-","A","c","c","o",
               "u","n","t","-","E","m","a","i","l">>) # <<>>)
            => /\ config.serviceAccountJSON # <<>>
               /\ config.serviceAccountEmail = <<>>

\* C16: after handleConfigure returns, whatever the Config-Item values of
\* the Configuration message and whatever earlier messages configured, the
\* JSON path and the email are never both non-empty.
C16_NeverBoth ==
    ~(/\ config.serviceAccountJSON # <<>>
      /\ config.serviceAccountEmail # <<>>)

\* C17: a read that signals the end of the input makes Run return nil
\* without writing anything, however many messages were handled before, and
\* nothing is written once Run has returned.
C17_EOFEndsRun ==
    [][/\ (pc = "ReadString" /\ rerr' = "EOF")
            => /\ pc' = "done"
               /\ ret' = "nil"
               /\ out' = out
               /\ sent' = sent
       /\ pc = "done" => (out' = out /\ sent' = sent /\ ret' = ret)]_vars

\* Run returned nil at the end of the input after two messages had been
\* handled and answered.
C17_Witness ==
    /\ pc = "done"
    /\ rerr = "EOF"
    /\ ret = "nil"
    /\ nread >= 2
    /\ Len(sent) >= 3

\* The errors of parseHeader and parseField.
ParseErrors ==
    {"Empty message header", "Double parsing header",
     "Malformed header, not enough parts",
     "Malformed header, code is not an integer",
     "Empty message field", "Malformed field, not enough parts",
     "Malformed field, empty key or value"}

\* ReadString delivers a line in this step and ReadMessage returns an error
\* of the set errs for it.
LineFails(errs) ==
    /\ pc = "ReadString"
    /\ input # <<>>
    /\ cancelled' = cancelled
    /\ readLine(message, Head(input)).err \in errs

\* Run has returned: it reads no input and writes nothing any more.
RunStaysDone ==
    pc = "done" => UNCHANGED <<pc, ret, input, nread, out, sent>>

C19_Cooperative ==
    [][/\ (pc = "select" /\ cancelled)
            => (pc' = "done" /\ out' = out /\ sent' = sent)
       /\ (pc = "ReadMessage" /\ cancelled)
            => (pc' = "done" /\ out' = out /\ sent' = sent)
       /\ (pc' = "ReadMessage" /\ pc # "ReadMessage")
            => (pc = "ReadString" \/ (pc = "select" /\ ~cancelled))
       /\ (pc' = "ReadString" /\ pc # "ReadString")
            => (pc = "ReadMessage" /\ ~cancelled)
       /\ (cancelled' # cancelled)
            => /\ cancelled'
               /\ UNCHANGED <<pc, ret, input, message, msg, rerr, out, sent,
                              nread>>
       /\ (pc = "ReadString" /\ pc' # "ReadString")
            => \/ input # <<>> /\ input' = Tail(input)
               \/ /\ input = <<>>
                  /\ rerr' \in {"EOF", "io: read/write on closed pipe"}
       /\ pc = "done" => (out' = out /\ sent' = sent)]_vars

\* ctx was cancelled while Run waits in ReadString for a line, after a
\* message had been handled, and Run has not returned.
C19_Witness ==
    /\ pc = "ReadString"
    /\ input = <<>>
    /\ cancelled
    /\ ret = "running"
    /\ nread >= 1

\* The positions of Run: before SendCapabilities, at the select of its loop,
\* at the select of the loop of ReadMessage, in ReadString, at the switch
\* on msg.code, in httpClient.Do, in download, and returned.
RunPCs ==
    {"start", "select", "ReadMessage", "ReadString", "dispatch", "Do",
     "download", "done"}

\* The goroutine that runs Run takes a step. Every step of Run moves pc,
\* and the steps of the peer and of the caller (Arrive, Cancel) leave it;
\* Run has a step to take until it has returned, except in ReadString while
\* the input holds no line: whether an empty input ever ends, is closed or
\* delivers a line is the peer's doing.
RunAdvances ==
    /\ pc # "done"
    /\ pc = "ReadString" => input # <<>>
    /\ pc' \in RunPCs \ {pc}

\* Run under a scheduler that lets its goroutine make progress whenever it
\* has a step to take; the peer and the caller owe nothing.
SpecLive == Spec /\ WF_pc(RunAdvances)

\* The last answer to the inbound message that Run read last is a failure:
\* 400 URI Failure (missing Filename, credential, request, status or
\* download failure) or 401 General Failure (missing URI, unknown code).
LastFailed ==
    /\ nread >= 1
    /\ Replies(nread) # <<>>
    /\ Replies(nread)[Len(Replies(nread))].m.code \in {400, 401}

\* The input holds the lines of one more complete message, a header, its
\* fields and the blank line, and Run is waiting for a line.
NextMessageDelivered ==
    /\ pc = "ReadString"
    /\ message = NilMessage
    /\ input \in InputMessages
    /\ Head(input) # <<>>

\* C20: Run does not return from handling a message, whatever its outcome,
\* and when the input delivers another complete message after a message
\* that was answered with a failure, that message is eventually read and
\* dispatched, as the next message, unless ctx is cancelled first.
C20_ContinuesAfterFailure ==
    /\ [][/\ Handling => (pc' # "done" /\ ret' = ret)
          /\ (pc' = "dispatch" /\ pc # "dispatch")
                => (nread' = nread + 1 /\ pc = "ReadString")]_vars
    /\ (LastFailed /\ NextMessageDelivered)
           ~> (pc = "dispatch" \/ cancelled)

\* A message was dispatched after its predecessor had been answered with a
\* failure.
C20_Witness ==
    /\ pc = "dispatch"
    /\ nread >= 2
    /\ ~cancelled
    /\ Replies(nread - 1) # <<>>
    /\ Replies(nread - 1)[Len(Replies(nread - 1))].m.code \in {400, 401}

\* The lines the reader has consumed so far.
Consumed ==
    SubSeq(Lines(out[1]), 1, Len(Lines(out[1])) - Len(input))

\* A line that parseField accepts: it has a colon, and a name and a value
\* that are not empty once trimmed.
FieldOK(line) ==
    /\ ":" \in Range(line)
    /\ LineName(line) # <<>>
    /\ LineValue(line) # <<>>

\* The message m is what a header line and the lines ls that follow it make:
\* the code and the description of the header and the fields of the lines;
\* no line of ls is blank, and a line that parseField refused adds nothing.
MadeOf(m, header, ls) ==
    LET hd == parseHeader(ZeroMessage, TrimSpace(header))
        fs == SelectSeq(ls, FieldOK)
    IN  /\ hd.err = NoError
        /\ m.code = hd.message.code
        /\ m.description = hd.message.description
        /\ \A i \in DOMAIN ls : TrimSpace(ls[i]) # <<>>
        /\ DOMAIN m.fields = {LineName(fs[i]) : i \in DOMAIN fs}
        /\ \A k \in DOMAIN m.fields : m.fields[k] = ValuesNamed(fs, k)

\* C21: over any sequence of ReadMessage calls on one reader, calls after
\* a call that returned a parse error included, a line is accepted as a
\* field only when a header line has been parsed for the message in
\* progress, and every message returned is made of one header line and the
\* lines between it and the blank line that ended the message.
C21_OneHeader ==
    /\ [](  (pc = "returned" /\ rerr = NoError)
                => \E h \in 1..(Len(Consumed) - 1) :
                       MadeOf(msg, Consumed[h],
                              SubSeq(Consumed, h + 1, Len(Consumed) - 1)))
    /\ [][(/\ message' # NilMessage
           /\ message # NilMessage
           /\ message'.fields # message.fields)
              => (message.code # 0 \/ message.description # <<>>)]_vars

\* The field names every 201 URI Done carries.
DoneNames == {<<"U","R","I">>, <<"L","a","s","t","-","M","o","d","i","f","i",
      "e","d">>, <<"F","i","l","e","n","a","m","e">>}

\* C22: every 201 URI Done written carries URI, Last-Modified and
\* Filename, one value each, and besides them either IMS-Hit: true alone,
\* when the status was 304, or Size and MD5-Hash alone, when it was 200;
\* the bytes written have one line for each of these fields and no other.
C22_DoneAlternatives ==
    [][LET ims == <<"I","M","S","-","H","i","t">>
           yes == <<"t","r","u","e">>
           imsLine == <<"\n","I","M","S","-","H","i","t",":"," ","t","r","u",
                 "e","\n">>
           imsName == <<"\n","I","M","S","-","H","i","t",":">>
           sizeName == <<"\n","S","i","z","e",":">>
           md5Name == <<"\n","M","D","5","-","H","a","s","h",":">>
           full ==
               {<<"S","i","z","e">>, <<"M","D","5","-","H","a","s","h">>}
       IN  \A i \in (Len(sent) + 1)..Len(sent') :
           sent'[i].m.code = 201 =>
               LET f == sent'[i].m.fields
               IN  /\ \A k \in DOMAIN f : Len(f[k]) = 1
                   /\ Len(Lines(out'[i])) = Cardinality(DOMAIN f) + 2
                   /\ \/ /\ DOMAIN f = DoneNames \cup {ims}
                         /\ f[ims] = <<yes>>
                         /\ resp'.status = 304
                         /\ Contains(out'[i], imsLine)
                         /\ ~Contains(out'[i], sizeName)
                         /\ ~Contains(out'[i], md5Name)
                      \/ /\ DOMAIN f = DoneNames \cup full
                         /\ resp'.status = 200
                         /\ Contains(out'[i], sizeName)
                         /\ Contains(out'[i], md5Name)
                         /\ ~Contains(out'[i], imsName)]_vars

\* Both kinds of URI Done have been written: one with IMS-Hit and one with
\* Size and MD5-Hash.
C22_Witness ==
    /\ \E i \in DOMAIN sent :
           sent[i].m.code = 201 /\ <<"I","M","S","-","H","i",
                 "t">> \in DOMAIN sent[i].m.fields
    /\ \E i \in DOMAIN sent :
           sent[i].m.code = 201 /\ <<"M","D","5","-","H","a","s",
                 "h">> \in DOMAIN sent[i].m.fields

\* The number of terminal replies, 201 URI Done, 400 URI Failure or 401
\* General Failure, among the messages ss written for inbound message n.
TerminalReplies(ss, n) ==
    Cardinality({i \in DOMAIN ss :
                    ss[i].by = n /\ ss[i].m.code \in {201, 400, 401}})

\* C23: when the handling of a 600 message ends, and so before Run reads
\* the next inbound message, exactly one terminal reply has been written
\* for it: never none and never two.
C23_OneTerminalReply ==
    [][(Handling /\ msg.code = 600 /\ pc' = "select")
          => TerminalReplies(sent', nread) = 1]_vars

\* The trimmed value of the last item of items that has the key, or the
\* value old when no item has it.
LastValue(items, key, old) ==
    LET its == ItemsKeyed(items, key)
    IN  IF its = <<>> THEN old ELSE ItemValue(its[Len(its)])

\* The Configuration message has a Config-Item value without "=".
HasMalformedItem(m) ==
    \E i \in DOMAIN ConfigItemsOf(m) : "=" \notin Range(ConfigItemsOf(m)[i])

\* C24: when a Config-Item value of a Configuration message lacks "=",
\* handleConfigure writes one 101 Log that names the item and nothing else,
\* no 400 and no 401; the configuration afterwards is the one the items
\* before that item make of the configuration before, and no item after it
\* has any effect; Run goes on to its next loop iteration.
C24_MalformedItem ==
    [][(/\ pc = "dispatch"
        /\ cancelled' = cancelled
        /\ msg.code = 601
        /\ HasMalformedItem(msg)) =>
           LET items == ConfigItemsOf(msg)
               before == ItemsSet(items)
               bad == items[Len(before) + 1]
               log == <<"m","a","l","f","o","r","m","e","d"," ","c","o","n",
                     "f","i","g"," ","i","t","e","m",":"," ">>
               json == <<"A","c","q","u","i","r","e",":",":","g","a","r",":",
                     ":","S","e","r","v","i","c","e","-","A","c","c","o","u",
                     "n","t","-","J","S","O","N">>
               email == <<"A","c","q","u","i","r","e",":",":","g","a","r",
                     ":",":","S","e","r","v","i","c","e","-","A","c","c","o",
                     "u","n","t","-","E","m","a","i","l">>
               debug == <<"D","e","b","u","g",":",":","A","c","q","u","i",
                     "r","e",":",":","g","a","r">>
           IN  /\ Len(sent') = Len(sent) + 1
               /\ sent'[Len(sent')].by = nread
               /\ sent'[Len(sent')].m = new101Message(log \o bad)
               /\ config'.serviceAccountJSON =
                      LastValue(before, json, config.serviceAccountJSON)
               /\ config'.serviceAccountEmail =
                      LastValue(before, email, config.serviceAccountEmail)
               /\ config'.debug =
                      IF ItemsKeyed(before, debug) = <<>> THEN config.debug
                      ELSE stringToBool(LastValue(before, debug, <<>>))
               /\ pc' = "select"
               /\ ret' = ret]_vars

\* A Configuration message with the JSON path, an item without "=" and the
\* email, in this order, has been handled: the JSON path is set, the email
\* is not, one 101 Log was written for it and Run is back at its loop.
C24_Witness ==
    /\ pc = "select"
    /\ msg # NilMessage
    /\ msg.code = 601
    /\ HasMalformedItem(msg)
    /\ Len(ConfigItemsOf(msg)) > Len(ItemsSet(ConfigItemsOf(msg))) + 1
    /\ config.serviceAccountJSON # <<>>
    /\ config.serviceAccountEmail = <<>>
    /\ Len(SentBy(nread)) = 1
    /\ SentBy(nread)[1].m.code = 101

\* ReadString delivers a line that is empty once trimmed.
BlankLineRead ==
    /\ pc = "read"
    /\ input # <<>>
    /\ TrimSpace(Head(input)) = <<>>

\* C25: an empty line, or one of white space only, read while the reader
\* holds no message in progress makes ReadMessage return the error of an
\* empty message and leaves the reader without a message in progress; read
\* while the reader holds one, it makes ReadMessage return that message
\* and leaves the reader without one, so that a message returned by the
\* call after it is made of the lines of that call alone.
C25_BlankLine ==
    /\ [][/\ (BlankLineRead /\ message = NilMessage)
               => /\ pc' = "returned"
                  /\ rerr' = "Empty message"
                  /\ msg' = NilMessage
                  /\ message' = NilMessage
          /\ (BlankLineRead /\ message # NilMessage)
               => /\ pc' = "returned"
                  /\ rerr' = NoError
                  /\ msg' = message
                  /\ message' = NilMessage]_vars
    /\ [](  (pc = "returned" /\ rerr = NoError /\ tmsg # NilMessage)
                => MadeOf(msg, Consumed[nlines + 1],
                          SubSeq(Consumed, nlines + 2, Len(Consumed) - 1)))

\* Two calls in a row returned a message each: the first has a field, the
\* second has none.
C25_Witness ==
    /\ pc = "returned"
    /\ rerr = NoError
    /\ tmsg # NilMessage
    /\ tmsg.fields # NoFields
    /\ msg.code = 600
    /\ msg.fields = NoFields

\* C26: once m.client is set, by the first acquisition that needed it or by
\* the caller before Run, no step changes it, whatever a later
\* Configuration message makes of the JSON path and the email, and every
\* request issued afterwards is sent with that client.
C26_ClientKept ==
    [][client # NoClient
          => /\ client' = client
             /\ credTries' = credTries
             /\ \A i \in (Len(requests) + 1)..Len(requests') :
                    requests'[i].client = client]_vars

\* The client was made from the default credentials by an acquisition, a
\* later Configuration message has set the JSON path, and the client is
\* still the one made first.
C26_Witness ==
    /\ client.source = "default"
    /\ requests # <<>>
    /\ requests[1].client = client
    /\ config.serviceAccountJSON # <<>>
    /\ msg # NilMessage
    /\ msg.code = 601
    /\ pc = "select"

\* C27: each time initClient resolves a credential source it takes the
\* JSON key file when the JSON path is not empty, otherwise the identity of
\* the email when the email is not empty, otherwise the default
\* credentials; the email is never the source while a JSON path is
\* configured, whichever Configuration messages made the configuration; a
\* client that is made is made from the source taken.
C27_SourcePrecedence ==
    [][\A i \in (Len(credTries) + 1)..Len(credTries') :
           LET src == credTries'[i].source
           IN  /\ config.serviceAccountJSON # <<>>
                    => (/\ src.source = "json"
                        /\ src.param = config.serviceAccountJSON)
               /\ (/\ config.serviceAccountJSON = <<>>
                   /\ config.serviceAccountEmail # <<>>)
                    => (/\ src.source = "email"
                        /\ src.param = config.serviceAccountEmail)
               /\ (/\ config.serviceAccountJSON = <<>>
                   /\ config.serviceAccountEmail = <<>>)
                    => src.source = "default"
               /\ client' # NoClient => client' = src]_vars

\* initClient took the JSON key file for a configuration in which a
\* Configuration message with an item without "=" had left the email set
\* next to the JSON path.
C27_Witness ==
    /\ pc = "initClient returned"
    /\ config.serviceAccountJSON # <<>>
    /\ config.serviceAccountEmail # <<>>
    /\ credTries # <<>>
    /\ credTries[1].source.source = "json"
    /\ client.source = "json"

\* The messages among ss written for inbound message n, the 101 Logs of the
\* debug option aside.
RepliesIn(ss, n) ==
    SelectSeq(ss, LAMBDA e : e.by = n /\ e.m.code # 101)

\* The replies are one 400 URI Failure for the URI, with a text.
OneURIFailure(rs, uri) ==
    /\ Len(rs) = 1
    /\ rs[1].m.code = 400
    /\ Get(rs[1].m, <<"U","R","I">>) = uri
    /\ Get(rs[1].m, <<"M","e","s","s","a","g","e">>) # <<>>

\* C28: when initClient cannot obtain a credential source for an
\* acquisition, and when m.client.Do returns an error, handleAcquire ends
\* with one 400 URI Failure for the URI of the request, carrying the text
\* of the error, as its only reply: no 200 URI Start and no 201 URI Done;
\* after a credential failure no request has been issued.
C28_OneFailure ==
    [][LET uri == Get(msg, <<"U","R","I">>)
           rs == RepliesIn(sent', nread)
       IN  /\ (/\ pc = "dispatch"
               /\ Len(credTries') = Len(credTries) + 1
               /\ credTries'[Len(credTries')].outcome # "ok")
                 => /\ OneURIFailure(rs, uri)
                    /\ SubSeq(Get(rs[1].m, <<"M","e","s","s","a","g",
                          "e">>), 1, 9)
                           = <<"f","a","i","l","e","d"," ","t","o">>
                    /\ requests' = requests
                    /\ client' = NoClient
                    /\ pc' = "select"
           /\ (pc = "Do" /\ pc' # "Do" /\ resp' = NoResponse)
                 => /\ OneURIFailure(rs, uri)
                    /\ Get(rs[1].m, <<"M","e","s","s","a","g","e">>) = <<"c",
                          "o","n","n","e","c","t","i","o","n"," ","r","e",
                          "f","u","s","e","d">>
                    /\ pc' = "select"]_vars

\* A first acquisition failed for want of credentials, with no request
\* issued for it, and a second one failed in m.client.Do; each was answered
\* with one 400 URI Failure.
C28_Witness ==
    /\ pc = "select"
    /\ nread = 2
    /\ credTries # <<>>
    /\ credTries[1].outcome # "ok"
    /\ credTries[1].by = 1
    /\ Len(requests) = 1
    /\ requests[1].by = 2
    /\ resp = NoResponse
    /\ Len(Replies(1)) = 1
    /\ Replies(1)[1].m.code = 400
    /\ Len(Replies(2)) = 1
    /\ Replies(2)[1].m.code = 400

\* C29: when the status is 200 and m.dl.download returns an error, the
\* messages written for the acquisition, the 101 Logs of the debug option
\* aside, are 200 URI Start and then one 400 URI Failure, both for the URI
\* of the request, the failure with the text of the error; no 201 URI Done
\* is written for it.
C29_DownloadFails ==
    [][(/\ pc = "download"
        /\ Len(downloads') = Len(downloads) + 1
        /\ downloads'[Len(downloads')].err # <<>>)
          => LET rs == RepliesIn(sent', nread)
                 uri == Get(msg, <<"U","R","I">>)
             IN  /\ resp.status = 200
                 /\ Len(rs) = 2
                 /\ rs[1].m.code = 200
                 /\ Get(rs[1].m, <<"U","R","I">>) = uri
                 /\ rs[2].m.code = 400
                 /\ Get(rs[2].m, <<"U","R","I">>) = uri
                 /\ Get(rs[2].m, <<"M","e","s","s","a","g","e">>)
                        = downloads'[Len(downloads')].err
                 /\ pc' = "select"]_vars

\* An acquisition whose download failed has ended: 200 URI Start and 400
\* URI Failure were written for it.
C29_Witness ==
    /\ pc = "select"
    /\ downloads # <<>>
    /\ downloads[Len(downloads)].by = nread
    /\ downloads[Len(downloads)].err # <<>>
    /\ resp.status = 200
    /\ Len(Replies(nread)) = 2
    /\ Replies(nread)[2].m.code = 400


\* The credential source the configuration cfg designates.
InForce(cfg) ==
    IF cfg.serviceAccountJSON # <<>> THEN "json"
    ELSE IF cfg.serviceAccountEmail # <<>> THEN "email"
    ELSE "default"

\* C30: a call of initClient that fails leaves m.client unset and m.config
\* as it was, and so do the steps up to the next Configuration message; the
\* acquisition that follows a failure finds the client unset and resolves
\* the credentials once more, from the source that the configuration of
\* that moment designates.
C30_RetryAfterFailure ==
    [][/\ (/\ Len(credTries') = Len(credTries) + 1
           /\ credTries'[Len(credTries')].outcome # "ok")
            => (/\ client = NoClient
                /\ client' = NoClient
                /\ config' = config
                /\ ret' = "error")
       /\ (pc = "initClient returned" /\ ret = "error")
            => (client' = NoClient /\ config' = config)
       /\ (/\ pc = "configured"
           /\ credTries # <<>>
           /\ credTries[Len(credTries)].outcome # "ok")
            => (/\ client = NoClient
                /\ Len(credTries') = Len(credTries) + 1
                /\ credTries'[Len(credTries')].by = nread
                /\ credTries'[Len(credTries')].source.source = InForce(config)
                /\ credTries'[Len(credTries')].outcome = "ok"
                     => client'.source = InForce(config))]_vars

\* After a failure to find default credentials a Configuration message set
\* the JSON path, and the next call of initClient built the client from the
\* key file.
C30_Witness ==
    /\ pc = "initClient returned"
    /\ Len(credTries) = 2
    /\ credTries[1].source.source = "default"
    /\ credTries[1].outcome # "ok"
    /\ credTries[2].source.source = "json"
    /\ credTries[2].by > credTries[1].by
    /\ client.source = "json"

\* C31: a Run that returns because ctx was cancelled returns nil, whether
\* its own select found ctx cancelled or the select of ReadMessage did,
\* before the first line of a message or between two of its lines.
C31_CancelReturnsNil ==
    /\ [](pc = "done" /\ rerr = "context canceled" => ret = "nil")
    /\ [][(/\ pc \in {"select", "ReadMessage"}
           /\ cancelled
           /\ pc' = "done") => ret' = "nil"]_vars

\* What ReadMessage returns for the lines ls, with m the message in
\* progress: the message and NoError, or the error; "EOF" when the lines
\* run out.
RECURSIVE ReadLines(_, _)
ReadLines(m, ls) ==
    IF ls = <<>> THEN [msg |-> NilMessage, err |-> "EOF"]
    ELSE LET r == readLine(m, Head(ls))
         IN  IF r.returns THEN [msg |-> r.msg, err |-> r.err]
             ELSE ReadLines(r.message, Tail(ls))

\* ReadMessage reads the bytes written for m back as a message with the
\* code and the fields of m.
ReadsBack(m) ==
    LET r == ReadLines(NilMessage, Lines(String(m)))
    IN  /\ r.err = NoError
        /\ r.msg.code = m.code
        /\ r.msg.fields = m.fields

\* No field line of m has an empty value.
NoEmptyValue(m) ==
    \A k \in DOMAIN m.fields :
        \A i \in DOMAIN m.fields[k] : m.fields[k][i] # <<>>

\* C32: every message Run writes is read back by ReadMessage with the same
\* code and the same fields, and none of its field lines has an empty
\* value, whatever headers the HTTP response has.
C32_OutboundParsesBack ==
    \A i \in DOMAIN sent : ReadsBack(sent[i].m) /\ NoEmptyValue(sent[i].m)

\* C33: when the input ends while a message is in progress (its header and
\* perhaps some field lines were read, its blank line was not), ReadMessage
\* returns the end of the input and no message, Run returns nil, and the
\* partial message is not dispatched: nothing is written for it, no request
\* is made, and the configuration and the client stay as they were.
C33_PartialMessageDropped ==
    /\ [][(/\ pc = "ReadString"
           /\ input = <<>>
           /\ message # NilMessage
           /\ pc' # pc)
            => (/\ rerr' \in {"EOF", "io: read/write on closed pipe"}
                /\ msg' = NilMessage
                /\ pc' = "done"
                /\ nread' = nread
                /\ rerr' = "EOF" => ret' = "nil"
                /\ UNCHANGED <<out, sent, requests, downloads, credTries,
                               config, client>>)]_vars
    /\ [][pc = "done" => UNCHANGED <<pc, ret, msg, nread, out, sent>>]_vars

\* The input ended after "600 URI Acquire" and its URI line, after an
\* earlier message had been handled: Run returned nil, and the last message
\* written is a reply to the earlier message.
C33_Witness ==
    /\ pc = "done"
    /\ rerr = "EOF"
    /\ ret = "nil"
    /\ message # NilMessage
    /\ message.code = 600
    /\ DOMAIN message.fields # {}
    /\ nread >= 1
    /\ sent[Len(sent)].by = nread

\* strings.HasPrefix
HasPrefix(s, prefix) ==
    Len(s) >= Len(prefix) /\ SubSeq(s, 1, Len(prefix)) = prefix

\* The URI with its scheme prefix "ar+https" rewritten to "https".
SchemeRewritten(uri) ==
    LET ar == <<"a","r","+","h","t","t","p","s">>
    IN  IF HasPrefix(uri, ar)
        THEN <<"h","t","t","p","s">> \o SubSeq(uri, Len(ar) + 1, Len(uri))
        ELSE uri

\* C34: the GET goes to the URI of the request with only its scheme prefix
\* "ar+https" rewritten to "https"; a URI that does not begin with
\* "ar+https" is requested as it is, and "ar+https" is left alone wherever
\* else it occurs.
C34_OnlySchemePrefix ==
    \A i \in DOMAIN requests :
        requests[i].url = SchemeRewritten(msg.fields[<<"U","R","I">>][1])

\* The first value of the Last-Modified field of m, <<>> when m has no such
\* field or no value in it.
FirstLastModified(m) ==
    LET k == <<"L","a","s","t","-","M","o","d","i","f","i","e","d">>
    IN  IF k \in DOMAIN m.fields /\ m.fields[k] # <<>>
        THEN m.fields[k][1]
        ELSE <<>>

\* C35: the request has the If-Modified-Since header exactly when the
\* first value of the Last-Modified field of the 600 message is not empty,
\* and the value of the header is that value as it is.
C35_IfModifiedSince ==
    \A i \in DOMAIN requests :
        /\ requests[i].ifModifiedSince # <<>> <=> FirstLastModified(msg) # <<>>
        /\ requests[i].ifModifiedSince = FirstLastModified(msg)

\* A request was made for a message with the Last-Modified values "Sun" and
\* "Mon", with "Sun" as If-Modified-Since.
C35_Witness ==
    /\ requests # <<>>
    /\ <<"L","a","s","t","-","M","o","d","i","f","i","e",
          "d">> \in DOMAIN msg.fields
    /\ Len(msg.fields[<<"L","a","s","t","-","M","o","d","i","f","i","e",
          "d">>]) = 2
    /\ requests[1].ifModifiedSince = <<"S","u","n">>

\* The integer s is 1: no minus sign, a last digit 1 and only zeros
\* before it.
IsOne(s) ==
    LET ds == IF s[1] = "+" THEN Tail(s) ELSE s
    IN  /\ s[1] # "-"
        /\ ds[Len(ds)] = "1"
        /\ \A i \in 1..(Len(ds) - 1) : ds[i] = "0"

\* C36: a Debug::Acquire::gar item sets the debug flag to TRUE when its
\* value, white space at its ends removed, is an integer equal to 1 or,
\* being no integer, is yes, true, with, on or enable in upper or lower
\* case; to FALSE for every other integer and every other string.
C36_DebugTruthy ==
    pc = "configured"
        => LET v == TrimSpace(input[1])
           IN  config.debug =
                   IF IsInteger(v) THEN IsOne(v)
                   ELSE ToLower(v) \in { <<"y","e","s">>, <<"t","r","u",
                         "e">>, <<"w","i","t","h">>,
                                         <<"o","n">>, <<"e","n","a","b","l",
                                               "e">> }

\* handleConfigure set the debug flag for the value " oN".
C36_Witness ==
    /\ pc = "configured"
    /\ input = << <<" ","o","N">> >>
    /\ config.debug
    /\ sent = <<>>

\* The three keys handleConfigure recognizes.
RecognizedKeys ==
    { <<"A","c","q","u","i","r","e",":",":","g","a","r",":",":","S","e","r",
          "v","i","c","e","-","A","c","c","o","u","n","t","-","J","S","O",
          "N">>,
      <<"A","c","q","u","i","r","e",":",":","g","a","r",":",":","S","e","r",
            "v","i","c","e","-","A","c","c","o","u","n","t","-","E","m","a",
            "i","l">>,
      <<"D","e","b","u","g",":",":","A","c","q","u","i","r","e",":",":","g",
            "a","r">> }

\* m has no Config-Item field, or every item of m has a "=" and a key that
\* is not recognized.
NothingToSet(m) ==
    \/ <<"C","o","n","f","i","g","-","I","t","e","m">> \notin DOMAIN m.fields
    \/ \A i \in DOMAIN ConfigItemsOf(m) :
           /\ "=" \in Range(ConfigItemsOf(m)[i])
           /\ ItemKey(ConfigItemsOf(m)[i]) \notin RecognizedKeys

\* C37: handleConfigure, called with a Configuration message that has no
\* Config-Item field or only items with "=" and keys that are not
\* recognized, leaves the JSON path, the email and the debug flag as they
\* were and writes nothing.
C37_NothingToSet ==
    [][(pc = "configure" /\ pc' = "configured" /\ NothingToSet(msg'))
          => (config' = config /\ out' = out /\ sent' = sent)]_vars

\* C38: a step changes the configuration only when it handles a 601
\* message; the steps that handle a 600 message, whatever their outcome,
\* and the step that handles any other code leave it as it is. A step
\* changes the client only when it handles a 600 message, the client is
\* unset and the credential resolution succeeds, which no earlier
\* resolution did.
C38_ConfigAndClientFrame ==
    [][/\ config' # config => (pc = "dispatch" /\ msg.code = 601)
       /\ (pc \in {"dispatch", "Do", "download"} /\ msg.code # 601)
            => config' = config
       /\ client' # client
            => (/\ pc = "dispatch"
                /\ msg.code = 600
                /\ client = NoClient
                /\ Len(credTries') = Len(credTries) + 1
                /\ credTries'[Len(credTries')].outcome = "ok"
                /\ credTries'[Len(credTries')].by = nread
                /\ \A i \in DOMAIN credTries : credTries[i].outcome # "ok")]_vars

\* After a Configuration message set the JSON path, an acquisition resolved
\* the credentials from the key file, got a 200 and downloaded the file:
\* the client is set and the configuration is still the one the 601
\* message left.
C38_Witness ==
    /\ pc = "select"
    /\ nread = 2
    /\ msg # NilMessage
    /\ msg.code = 600
    /\ config.serviceAccountJSON = <<"/","k">>
    /\ Len(credTries) = 1
    /\ credTries[1].outcome = "ok"
    /\ client.source = "json"
    /\ resp.status = 200
    /\ downloads # <<>>

\* C39: Get(key) returns the first of the values the message stores under
\* key, and the empty string when the message has no such key or an empty
\* list under it; the message is the same after the call.
C39_GetFirstValue ==
    /\ [](pc = "got"
            => LET key == input[1]
                   res == out[1]
               IN  /\ key \notin DOMAIN tmsg.fields => res = <<>>
                   /\ (key \in DOMAIN tmsg.fields /\ tmsg.fields[key] = <<>>)
                        => res = <<>>
                   /\ (key \in DOMAIN tmsg.fields /\ tmsg.fields[key] # <<>>)
                        => res = Head(tmsg.fields[key]))
    /\ [][pc = "get" => tmsg' = tmsg]_vars

\* Get("key") returned "val1" for a message with "val1" and "val2" under
\* "key" and an empty list under "some-other-key".
C39_Witness ==
    /\ pc = "got"
    /\ input = << <<"k","e","y">> >>
    /\ out = << <<"v","a","l","1">> >>
    /\ DOMAIN tmsg.fields = GetKeys
    /\ tmsg.fields[<<"k","e","y">>] = << <<"v","a","l","1">>, <<"v","a","l",
          "2">> >>
    /\ tmsg.fields[<<"s","o","m","e","-","o","t","h","e","r","-","k","e",
          "y">>] = <<>>

====
